---- MODULE Spec2Model ----
(***************************************************************************)
(* Model of the AetherCore repository-cleanup subsystem.                   *)
(*                                                                         *)
(* Part I  : QuarantineManager (quarantine_manager.py): the repository     *)
(*           file tree, the quarantine tree, the on-disk manifest and the  *)
(*           in-memory manifest of each QuarantineManager instance.        *)
(* Part II : DependencyGraphBuilder.get_orphaned_files                     *)
(*           (dependency_graph.py): the breadth-first walk, one loop       *)
(*           iteration per step.                                           *)
(*                                                                         *)
(* Abstractions of Part I: paths are flat (no directories to prune), a     *)
(* file's bytes are a small integer, datetime.now() is the integer clock   *)
(* `now` (one unit = one second, the resolution of a generated session id),*)
(* the fields created/reasons/restored_at/deleted_at, the restore          *)
(* script and log output are left out.                                     *)
(***************************************************************************)
EXTENDS Integers, Sequences, FiniteSets, TLC

(* ------------------------------ bounds -------------------------------- *)
NumPaths == 2
NumContents == 2
MaxTime == 1
MaxBatch == 2
MaxSessions == 2
MaxDays == 1
MaxOps == 4
MaxOpsTwo == 3
NumNodes == 4
MaxEdges == 3
MaxEntryPoints == 2
MaxJudgeEvidence == 3
MaxDefenseEvidence == 2
MaxChain == 6
MaxRefs == 3
DecisionGrid == 20
MaxScoreEvidence == 2
MaxFindings == 2
NumCycleNodes == 3
MaxCycleEdges == 4
MaxFiles == 2
MaxRuns == 3
MaxRepoFiles == 2
MaxDupFiles == 3
MaxNegTfidf == 1
MaxTfidf == 2
NumWorkers == 2

Paths == 1..NumPaths
SessionIds == 0..MaxTime
Insts == {1, 2}
Nodes == 1..NumNodes

(* Path.exists() is False: no file at that place. *)
NoFile == 0
(* session_id=None (or any falsy value): the id is generated. *)
NoSessionId == -1

VARIABLES
  repo,      \* repo[p]: bytes of the file at repo_path/p, or NoFile
  qfs,       \* qfs[s][p]: bytes of quarantine/<s>/<p>, or NoFile
  qdir,      \* session ids s whose directory quarantine/<s>/ exists
  disk,      \* quarantine/quarantine_manifest.json: [present, m]
  mem,       \* mem[i]: [alive, m], self.manifest of instance i
  now,       \* datetime.now(), in seconds
  results,   \* return value of the last operation
  last,      \* history: the last operation and its arguments
  rt,        \* history: a move_to_quarantine and the restore_session after it
  fresh,     \* history: fresh[i] iff no other instance stored since i loaded
  serial,    \* history: no instance ever stored over a manifest it had not loaded
  nops,      \* history: number of manager operations so far
  forward_graph, entry_points, visited, queue, orphaned, pc,  \* Part II
  \* Part III: the file court
  file_path,          \* the file on trial (its name, at the repository root)
  facts,              \* what the agents' scans and indexes find for it
  conservative_mode,  \* JudgeAgent.conservative_mode
  prosecution_case,   \* the Prosecutor's case, or the dict handed to the Judge
  defense_case,       \* the Defense's case, or the dict handed to the Judge
  verdict,            \* the Judge's Verdict / a _make_decision result
  suspects,           \* return value of identify_suspects
  evidence,           \* a growing evidence list and
  score,              \*   its score before and after the last append
  cpc,                \* which court operation has run
  \* Part IV: find_circular_dependencies
  rec_stack,          \* rec_stack
  dfs_path,           \* the list path that every dfs call of one search shares
  cycles,             \* cycles
  frames,             \* the dfs calls in progress: [node, todo], todo the
                      \*   neighbours the for loop has not reached yet
  \* Part V: analysis runs
  all_files,          \* the file set: per file its path parts, the names it
                      \*   imports and its word counts (first occurrence first)
  dep_builder,        \* DependencyGraphBuilder: [file_index, module_index]
  semantic_analyzer,  \* SemanticAnalyzer: [file_semantics, document_freq, total_docs]
  reports,            \* history: what each analysis run returned
  \* Part VI: the command line
  args,               \* parsed arguments: [output, quarantine, dry_run]
  repo_path,          \* what is at args.repo: "missing", "unreadable" or "ok"
  verdicts,           \* per analyzable file of the repository, what the court
                      \*   would say of it
  created,            \* what the run has written to the filesystem
  exit_status,        \* {} until the process ends, then {its exit status}
  \* Part VII: duplicate detection
  file_semantics,     \* list(self.file_semantics.items()): per file its path,
                      \*   tf_idf vector and file_type, in insertion order
  duplicates,         \* {} until _detect_duplicates returns, then {its list}
  \* Part VIII: trials of one FileCourt, step by step
  court,              \* FileCourt: [all_files, conservative, indexes], indexes
                      \*   what the agents' graphs and indexes hold per file
  file_contents,      \* ProsecutorAgent.file_contents: the paths it has cached
  judge_verdicts,     \* JudgeAgent.verdicts
  trials,             \* FileCourt.trials
  workers             \* per thread, the run_trial call it is in: [pc, file,
                      \*   git, prosecution_case, defense_case, verdict]

qvars == <<repo, qfs, qdir, disk, mem, now, results, last, rt, fresh, serial, nops>>
gvars == <<forward_graph, entry_points, visited, queue, orphaned, pc>>
cvars == <<file_path, facts, conservative_mode, prosecution_case, defense_case,
           verdict, suspects, evidence, score, cpc>>
dvars == <<rec_stack, dfs_path, cycles, frames>>
avars == <<all_files, dep_builder, semantic_analyzer, reports>>
mvars == <<args, repo_path, verdicts, created, exit_status>>
tvars == <<file_semantics, duplicates>>
pvars == <<court, file_contents, judge_verdicts, trials, workers>>
nvars == <<dvars, avars, mvars, tvars, pvars>>
xvars == <<cvars, nvars>>
vars == <<repo, qfs, qdir, disk, mem, now, results, last, rt, fresh, serial, nops,
          forward_graph, entry_points, visited, queue, orphaned, pc, xvars>>

(* ------------------------------ helpers ------------------------------- *)
Range(s) == {s[k] : k \in 1..Len(s)}

SeqsUpTo(S, n) == UNION {[1..k -> S] : k \in 0..n}

NoFiles == [p \in {} |-> NoFile]

(* dict assignment d[k] = v *)
Put(d, k, v) == [x \in (DOMAIN d) \cup {k} |-> IF x = k THEN v ELSE d[x]]

(* ----------------------- Part I: the manifest ------------------------- *)

(* The dict _load_manifest returns when there is no manifest file. *)
FreshManifest(t) ==
  [last_updated |-> t, quarantine_sessions |-> <<>>, files |-> NoFiles]

LoadManifestAlwaysFresh(d, t) == FreshManifest(t)

(* _load_manifest *)
LoadManifest(d, t) == IF d.present THEN d.m ELSE FreshManifest(t)

(* _save_manifest: stamps last_updated and rewrites the whole file. *)
Stamp(m, t) == [m EXCEPT !.last_updated = t]

SaveManifest(m, t) == [present |-> TRUE, m |-> Stamp(m, t)]

(* datetime.now().strftime("%Y%m%d_%H%M%S") *)
GenerateSessionId(t) == t

(* The filesystem part an operation works on. *)
FS == [repo |-> repo, qfs |-> qfs, qdir |-> qdir]

(* ------------------------ _move_single_file --------------------------- *)
(* fail: the paths whose shutil.move raises (caught by the except clause). *)

MoveSingleFileAlwaysRecords(fs, man, f, sid, dry, fail, t) ==
  IF fs.repo[f] = NoFile
  THEN [fs |-> fs, man |-> man,
        result |-> [original_path |-> f, success |-> FALSE, error |-> "File not found"]]
  ELSE IF ~dry /\ f \in fail
  THEN [fs |-> fs, man |-> man,
        result |-> [original_path |-> f, success |-> FALSE, error |-> "move failed"]]
  ELSE
    LET fs2 == IF dry THEN fs
               ELSE [repo |-> [fs.repo EXCEPT ![f] = NoFile],
                     qfs  |-> [fs.qfs EXCEPT ![sid][f] = fs.repo[f]],
                     qdir |-> fs.qdir \cup {sid}]
        file_record == [quarantine_path |-> <<sid, f>>, session_id |-> sid,
                        timestamp |-> t, restored |-> FALSE,
                        deleted |-> FALSE, cleaned |-> FALSE]
        man2 == [man EXCEPT !.files = Put(man.files, f, file_record)]
    IN [fs |-> fs2, man |-> man2,
        result |-> [original_path |-> f, quarantine_path |-> <<sid, f>>,
                    success |-> TRUE, dry_run |-> dry]]

MoveSingleFile(fs, man, f, sid, dry, fail, t) ==
  IF fs.repo[f] = NoFile
  THEN [fs |-> fs, man |-> man,
        result |-> [original_path |-> f, success |-> FALSE, error |-> "File not found"]]
  ELSE IF ~dry /\ f \in fail
  THEN [fs |-> fs, man |-> man,
        result |-> [original_path |-> f, success |-> FALSE, error |-> "move failed"]]
  ELSE
    LET fs2 == IF dry THEN fs
               ELSE [repo |-> [fs.repo EXCEPT ![f] = NoFile],
                     qfs  |-> [fs.qfs EXCEPT ![sid][f] = fs.repo[f]],
                     qdir |-> fs.qdir \cup {sid}]
        file_record == [quarantine_path |-> <<sid, f>>, session_id |-> sid,
                        timestamp |-> t, restored |-> FALSE,
                        deleted |-> FALSE, cleaned |-> FALSE]
        man2 == IF dry THEN man
                ELSE [man EXCEPT !.files = Put(man.files, f, file_record)]
    IN [fs |-> fs2, man |-> man2,
        result |-> [original_path |-> f, quarantine_path |-> <<sid, f>>,
                    success |-> TRUE, dry_run |-> dry]]

(* The for loop of move_to_quarantine over files[k..n]; st carries the     *)
(* filesystem, the manifest, results and session_files.                    *)
RECURSIVE MoveLoopAbortsOnFailure(_, _, _, _, _, _, _, _)
MoveLoopAbortsOnFailure(st, files, k, n, sid, dry, fail, t) ==
  IF k > n THEN st
  ELSE LET r == MoveSingleFile(st.fs, st.man, files[k], sid, dry, fail, t)
           st2 == [fs |-> r.fs, man |-> r.man,
                   results |-> Append(st.results, r.result),
                   session_files |-> IF r.result.success
                                     THEN Append(st.session_files, r.result)
                                     ELSE st.session_files]
       IN IF r.result.success
          THEN MoveLoopAbortsOnFailure(st2, files, k + 1, n, sid, dry, fail, t)
          ELSE st2

RECURSIVE MoveLoop(_, _, _, _, _, _, _, _)
MoveLoop(st, files, k, n, sid, dry, fail, t) ==
  IF k > n THEN st
  ELSE LET r == MoveSingleFile(st.fs, st.man, files[k], sid, dry, fail, t)
           st2 == [fs |-> r.fs, man |-> r.man,
                   results |-> Append(st.results, r.result),
                   session_files |-> IF r.result.success
                                     THEN Append(st.session_files, r.result)
                                     ELSE st.session_files]
       IN MoveLoop(st2, files, k + 1, n, sid, dry, fail, t)


SessionRecordMiscount(session_id, session_files, t) ==
  [session_id |-> session_id, timestamp |-> t,
   files_count |-> Len(session_files) + 1,
   files |-> [k \in 1..Len(session_files) |-> session_files[k].original_path]]

(* The dict appended to manifest["quarantine_sessions"]. *)
SessionRecord(session_id, session_files, t) ==
  [session_id |-> session_id, timestamp |-> t,
   files_count |-> Len(session_files),
   files |-> [k \in 1..Len(session_files) |-> session_files[k].original_path]]

(* --------------------------- restore_file ----------------------------- *)
(* fail: the paths whose shutil.move back raises.  Returns the new         *)
(* filesystem and manifest, whether _save_manifest ran, and the result.    *)

RestoreFailure(fs, man, f, msg) ==
  [fs |-> fs, man |-> man, saved |-> FALSE,
   result |-> [file_path |-> f, success |-> FALSE, error |-> msg]]

RestoreFileAlreadyRestoredOk(fs, man, f, dry, fail, t) ==
  IF f \notin DOMAIN man.files
  THEN RestoreFailure(fs, man, f, "File not found in quarantine manifest")
  ELSE
    LET record == man.files[f]
        qp == record.quarantine_path
    IN IF record.restored
       THEN [fs |-> fs, man |-> man, saved |-> FALSE,
             result |-> [file_path |-> f, success |-> TRUE, dry_run |-> dry]]
       ELSE IF fs.qfs[qp[1]][qp[2]] = NoFile
       THEN RestoreFailure(fs, man, f, "Quarantined file not found")
       ELSE IF ~dry /\ f \in fail
       THEN RestoreFailure(fs, man, f, "move failed")
       ELSE IF dry
       THEN [fs |-> fs, man |-> man, saved |-> FALSE,
             result |-> [file_path |-> f, success |-> TRUE, dry_run |-> TRUE]]
       ELSE [fs |-> [fs EXCEPT !.repo[f] = fs.qfs[qp[1]][qp[2]],
                               !.qfs[qp[1]][qp[2]] = NoFile],
             man |-> Stamp([man EXCEPT !.files[f].restored = TRUE], t),
             saved |-> TRUE,
             result |-> [file_path |-> f, success |-> TRUE, dry_run |-> FALSE]]

RestoreFileKeepsCopy(fs, man, f, dry, fail, t) ==
  IF f \notin DOMAIN man.files
  THEN RestoreFailure(fs, man, f, "File not found in quarantine manifest")
  ELSE
    LET record == man.files[f]
        qp == record.quarantine_path
    IN IF record.restored
       THEN RestoreFailure(fs, man, f, "File already restored")
       ELSE IF fs.qfs[qp[1]][qp[2]] = NoFile
       THEN RestoreFailure(fs, man, f, "Quarantined file not found")
       ELSE IF dry
       THEN [fs |-> fs, man |-> man, saved |-> FALSE,
             result |-> [file_path |-> f, success |-> TRUE, dry_run |-> TRUE]]
       ELSE [fs |-> [fs EXCEPT !.repo[f] = fs.qfs[qp[1]][qp[2]]],
             man |-> Stamp([man EXCEPT !.files[f].restored = TRUE], t),
             saved |-> TRUE,
             result |-> [file_path |-> f, success |-> TRUE, dry_run |-> FALSE]]

RestoreFileOp(fs, man, f, dry, fail, t) ==
  IF f \notin DOMAIN man.files
  THEN RestoreFailure(fs, man, f, "File not found in quarantine manifest")
  ELSE
    LET record == man.files[f]
        qp == record.quarantine_path
    IN IF record.restored
       THEN RestoreFailure(fs, man, f, "File already restored")
       ELSE IF fs.qfs[qp[1]][qp[2]] = NoFile
       THEN RestoreFailure(fs, man, f, "Quarantined file not found")
       ELSE IF ~dry /\ f \in fail
       THEN RestoreFailure(fs, man, f, "move failed")
       ELSE IF dry
       THEN [fs |-> fs, man |-> man, saved |-> FALSE,
             result |-> [file_path |-> f, success |-> TRUE, dry_run |-> TRUE]]
       ELSE [fs |-> [fs EXCEPT !.repo[f] = fs.qfs[qp[1]][qp[2]],
                               !.qfs[qp[1]][qp[2]] = NoFile],
             man |-> Stamp([man EXCEPT !.files[f].restored = TRUE], t),
             saved |-> TRUE,
             result |-> [file_path |-> f, success |-> TRUE, dry_run |-> FALSE]]

(* The for loop of restore_session over session["files"][k..]. *)
RECURSIVE RestoreLoop(_, _, _, _, _, _)
RestoreLoop(st, files, k, dry, fail, t) ==
  IF k > Len(files) THEN st
  ELSE LET r == RestoreFileOp(st.fs, st.man, files[k], dry, fail, t)
       IN RestoreLoop([fs |-> r.fs, man |-> r.man,
                       saved |-> st.saved \/ r.saved,
                       results |-> Append(st.results, r.result)],
                      files, k + 1, dry, fail, t)

(* The search loop of restore_session: index of the first session with    *)
(* that id, 0 if there is none.                                            *)
FindSession(sessions, sid) ==
  IF \E k \in 1..Len(sessions) : sessions[k].session_id = sid
  THEN CHOOSE k \in 1..Len(sessions) :
         /\ sessions[k].session_id = sid
         /\ \A j \in 1..(k - 1) : sessions[j].session_id # sid
  ELSE 0

(* ---------------------- cleanup_old_sessions -------------------------- *)
(* The for loop over manifest["quarantine_sessions"][k..]. *)
RECURSIVE CleanupLoop(_, _, _, _)
CleanupLoop(st, sessions, k, cutoff) ==
  IF k > Len(sessions) THEN st
  ELSE
    LET session == sessions[k]
        sid == session.session_id
        old == session.timestamp < cutoff /\ sid \in st.fs.qdir
        fs2 == [st.fs EXCEPT !.qfs[sid] = [p \in Paths |-> NoFile],
                             !.qdir = @ \ {sid}]
        man2 == [st.man EXCEPT !.files =
                   [p \in DOMAIN st.man.files |->
                      IF p \in Range(session.files)
                      THEN [st.man.files[p] EXCEPT !.cleaned = TRUE]
                      ELSE st.man.files[p]]]
    IN CleanupLoop(IF old THEN [fs |-> fs2, man |-> man2,
                                deleted_count |-> st.deleted_count + 1]
                   ELSE st,
                   sessions, k + 1, cutoff)


(* --------------------------- history ---------------------------------- *)
NoOp == [op |-> "idle", inst |-> 0, dry |-> FALSE, path |-> 0, sid |-> NoSessionId,
         files |-> <<>>, fail |-> {}, days |-> 0]

NoRoundTrip == [phase |-> "none", inst |-> 0, sid |-> NoSessionId,
                snap |-> [p \in Paths |-> NoFile]]

SessionIdsOf(man) ==
  {man.quarantine_sessions[k].session_id : k \in 1..Len(man.quarantine_sessions)}

(* A store by instance i: every other instance now holds a stale manifest. *)
StoreBy(i, saved) ==
  /\ fresh' = IF saved THEN [j \in Insts |-> j = i] ELSE fresh
  /\ serial' = (serial /\ (saved => fresh[i]))

(* One more manager operation, while the bound allows it and the caller   *)
(* has taken the previous operation's return value.                       *)
CountOp ==
  /\ last.op = "idle"
  /\ nops < MaxOps
  /\ nops' = nops + 1

(* ------------------------------ Init ---------------------------------- *)
QInit ==
  /\ repo = [p \in Paths |-> 1]
  /\ qfs = [s \in SessionIds |-> [p \in Paths |-> NoFile]]
  /\ qdir = {}
  /\ disk = [present |-> FALSE, m |-> FreshManifest(0)]
  /\ now = 0
  /\ mem = [i \in Insts |-> [alive |-> (i = 1), m |-> FreshManifest(0)]]
  /\ results = <<>>
  /\ last = NoOp
  /\ rt = NoRoundTrip
  /\ fresh = [i \in Insts |-> TRUE]
  /\ serial = TRUE
  /\ nops = 0

GIdle ==
  /\ forward_graph = <<>>
  /\ entry_points = {}
  /\ visited = {}
  /\ queue = <<>>
  /\ orphaned = {}
  /\ pc = "idle"

(* No court is in session. *)
CIdle ==
  /\ file_path = ""
  /\ facts = <<>>
  /\ conservative_mode = TRUE
  /\ prosecution_case = <<>>
  /\ defense_case = <<>>
  /\ verdict = <<>>
  /\ suspects = <<>>
  /\ evidence = <<>>
  /\ score = <<>>
  /\ cpc = "idle"

(* No search for cycles is running. *)
DIdle ==
  /\ rec_stack = {}
  /\ dfs_path = <<>>
  /\ cycles = <<>>
  /\ frames = <<>>

(* No analyzer is constructed. *)
AIdle ==
  /\ all_files = <<>>
  /\ dep_builder = <<>>
  /\ semantic_analyzer = <<>>
  /\ reports = <<>>

(* No command is running. *)
MIdle ==
  /\ args = <<>>
  /\ repo_path = ""
  /\ verdicts = <<>>
  /\ created = {}
  /\ exit_status = {}

(* No duplicate search is set up. *)
TIdle ==
  /\ file_semantics = <<>>
  /\ duplicates = {}

(* No court is constructed for step-by-step trials. *)
PIdle ==
  /\ court = <<>>
  /\ file_contents = {}
  /\ judge_verdicts = <<>>
  /\ trials = <<>>
  /\ workers = <<>>

NIdle == DIdle /\ AIdle /\ MIdle /\ TIdle /\ PIdle

XIdle == CIdle /\ NIdle

Init == QInit /\ GIdle /\ XIdle

(* ----------------------------- actions -------------------------------- *)

(* QuarantineManager(repo_path): a new instance (a new process) loads the  *)
(* manifest.                                                               *)
Construct(i) ==
  /\ CountOp
  /\ mem' = [mem EXCEPT ![i] = [alive |-> TRUE, m |-> LoadManifest(disk, now)]]
  /\ fresh' = [fresh EXCEPT ![i] = TRUE]
  /\ last' = [NoOp EXCEPT !.op = "construct", !.inst = i]
  /\ results' = <<>>
  /\ rt' = NoRoundTrip
  /\ UNCHANGED <<repo, qfs, qdir, disk, now, serial>>
  /\ UNCHANGED <<gvars, xvars>>

(* move_to_quarantine(files, session_id=sidArg, dry_run=dry) *)
MoveToQuarantine(i, files, sidArg, dry, fail) ==
  /\ mem[i].alive
  /\ CountOp
  /\ fail \subseteq (IF dry THEN {} ELSE {p \in Range(files) : repo[p] # NoFile})
  /\ dry \/ Len(mem[i].m.quarantine_sessions) < MaxSessions
  /\ LET session_id == IF sidArg = NoSessionId THEN GenerateSessionId(now) ELSE sidArg
         st == MoveLoop([fs |-> FS, man |-> mem[i].m, results |-> <<>>,
                         session_files |-> <<>>],
                        files, 1, Len(files), session_id, dry, fail, now)
         record == st.session_files # <<>> /\ ~dry
         man2 == IF record
                 THEN Stamp([st.man EXCEPT !.quarantine_sessions =
                               Append(@, SessionRecord(session_id, st.session_files, now))],
                            now)
                 ELSE st.man
     IN /\ repo' = st.fs.repo
        /\ qfs' = st.fs.qfs
        /\ qdir' = st.fs.qdir
        /\ mem' = [mem EXCEPT ![i].m = man2]
        /\ disk' = IF record THEN SaveManifest(man2, now) ELSE disk
        /\ results' = st.results
        /\ last' = [NoOp EXCEPT !.op = "move_to_quarantine", !.inst = i, !.dry = dry,
                                !.sid = session_id, !.files = files, !.fail = fail]
        /\ rt' = IF /\ ~dry
                    /\ session_id \notin SessionIdsOf(mem[i].m)
                    /\ \A k \in 1..Len(files) : repo[files[k]] # NoFile
                 THEN [phase |-> "moved", inst |-> i, sid |-> session_id,
                       snap |-> [p \in Paths |->
                                   IF repo'[p] = NoFile /\ p \in Range(files)
                                   THEN repo[p] ELSE NoFile]]
                 ELSE NoRoundTrip
        /\ StoreBy(i, record)
  /\ UNCHANGED now
  /\ UNCHANGED <<gvars, xvars>>

(* move_to_quarantine stopped (process killed) after its first k files:    *)
(* the instance and its in-memory manifest are gone, nothing was stored.   *)
Cancel(i, files, sidArg, fail, k) ==
  /\ mem[i].alive
  /\ CountOp
  /\ fail \subseteq {files[j] : j \in (1..k) \cap DOMAIN files}
  /\ \A p \in fail : repo[p] # NoFile
  /\ Len(mem[i].m.quarantine_sessions) < MaxSessions
  /\ k \in 1..(Len(files) - 1)
  /\ LET session_id == IF sidArg = NoSessionId THEN GenerateSessionId(now) ELSE sidArg
         st == MoveLoop([fs |-> FS, man |-> mem[i].m, results |-> <<>>,
                         session_files |-> <<>>],
                        files, 1, k, session_id, FALSE, fail, now)
     IN /\ repo' = st.fs.repo
        /\ qfs' = st.fs.qfs
        /\ qdir' = st.fs.qdir
        /\ mem' = [mem EXCEPT ![i] = [alive |-> FALSE, m |-> FreshManifest(0)]]
        /\ results' = st.results
        /\ last' = [NoOp EXCEPT !.op = "cancel", !.inst = i,
                                !.sid = session_id, !.files = files, !.fail = fail]
  /\ rt' = NoRoundTrip
  /\ UNCHANGED <<disk, now, fresh, serial>>
  /\ UNCHANGED <<gvars, xvars>>

(* restore_file(file_path, dry_run) *)
RestoreFile(i, f, dry, fail) ==
  /\ mem[i].alive
  /\ CountOp
  /\ fail \subseteq (IF dry THEN {} ELSE {f})
  /\ LET r == RestoreFileOp(FS, mem[i].m, f, dry, fail, now)
     IN /\ repo' = r.fs.repo
        /\ qfs' = r.fs.qfs
        /\ qdir' = r.fs.qdir
        /\ mem' = [mem EXCEPT ![i].m = r.man]
        /\ disk' = IF r.saved THEN SaveManifest(r.man, now) ELSE disk
        /\ results' = <<r.result>>
        /\ StoreBy(i, r.saved)
  /\ last' = [NoOp EXCEPT !.op = "restore_file", !.inst = i, !.dry = dry,
                          !.path = f, !.fail = fail]
  /\ rt' = NoRoundTrip
  /\ UNCHANGED now
  /\ UNCHANGED <<gvars, xvars>>

(* restore_session(session_id, dry_run) *)
RestoreSession(i, sid, dry, fail) ==
  /\ mem[i].alive
  /\ CountOp
  /\ dry => fail = {}
  /\ LET sessions == mem[i].m.quarantine_sessions
         idx == FindSession(sessions, sid)
         st == IF idx = 0
               THEN [fs |-> FS, man |-> mem[i].m, saved |-> FALSE,
                     results |-> <<[success |-> FALSE, error |-> "Session not found"]>>]
               ELSE RestoreLoop([fs |-> FS, man |-> mem[i].m, saved |-> FALSE,
                                 results |-> <<>>],
                                sessions[idx].files, 1, dry, fail, now)
     IN /\ repo' = st.fs.repo
        /\ qfs' = st.fs.qfs
        /\ qdir' = st.fs.qdir
        /\ mem' = [mem EXCEPT ![i].m = st.man]
        /\ disk' = IF st.saved THEN SaveManifest(st.man, now) ELSE disk
        /\ results' = st.results
        /\ StoreBy(i, st.saved)
  /\ last' = [NoOp EXCEPT !.op = "restore_session", !.inst = i, !.dry = dry,
                          !.sid = sid, !.fail = fail]
  /\ rt' = IF rt.phase = "moved" /\ rt.inst = i /\ rt.sid = sid /\ ~dry /\ fail = {}
           THEN [rt EXCEPT !.phase = "restored"]
           ELSE NoRoundTrip
  /\ UNCHANGED now
  /\ UNCHANGED <<gvars, xvars>>

(* permanently_delete(file_path); fail: Path.unlink raises. *)
PermanentlyDelete(i, f, fail) ==
  /\ mem[i].alive
  /\ CountOp
  /\ fail \subseteq {f}
  /\ LET man == mem[i].m
         known == f \in DOMAIN man.files
         qp == man.files[f].quarantine_path
         exists == qfs[qp[1]][qp[2]] # NoFile
         raised == exists /\ f \in fail
         man2 == Stamp([man EXCEPT !.files[f].deleted = TRUE], now)
     IN IF ~known
        THEN /\ results' = <<[file_path |-> f, success |-> FALSE,
                              error |-> "File not found in quarantine manifest"]>>
             /\ UNCHANGED <<qfs, mem, disk, fresh, serial>>
        ELSE IF raised
        THEN /\ results' = <<[file_path |-> f, success |-> FALSE, error |-> "unlink failed"]>>
             /\ UNCHANGED <<qfs, mem, disk, fresh, serial>>
        ELSE /\ qfs' = [qfs EXCEPT ![qp[1]][qp[2]] = NoFile]
             /\ mem' = [mem EXCEPT ![i].m = man2]
             /\ disk' = SaveManifest(man2, now)
             /\ results' = <<[file_path |-> f, success |-> TRUE]>>
             /\ StoreBy(i, TRUE)
  /\ last' = [NoOp EXCEPT !.op = "permanently_delete", !.inst = i, !.path = f,
                          !.fail = fail]
  /\ rt' = NoRoundTrip
  /\ UNCHANGED <<repo, qdir, now>>
  /\ UNCHANGED <<gvars, xvars>>

(* cleanup_old_sessions(days) *)
CleanupOldSessions(i, days) ==
  /\ mem[i].alive
  /\ CountOp
  /\ LET cutoff == now - days
         st == CleanupLoop([fs |-> FS, man |-> mem[i].m, deleted_count |-> 0],
                           mem[i].m.quarantine_sessions, 1, cutoff)
         man2 == Stamp(st.man, now)
     IN /\ qfs' = st.fs.qfs
        /\ qdir' = st.fs.qdir
        /\ mem' = [mem EXCEPT ![i].m = man2]
        /\ disk' = SaveManifest(man2, now)
        /\ results' = <<[sessions_cleaned |-> st.deleted_count, cutoff_date |-> cutoff]>>
        /\ StoreBy(i, TRUE)
  /\ last' = [NoOp EXCEPT !.op = "cleanup_old_sessions", !.inst = i, !.days = days]
  /\ rt' = NoRoundTrip
  /\ UNCHANGED <<repo, now>>
  /\ UNCHANGED <<gvars, xvars>>

(* Environment: a second passes. *)
Tick ==
  /\ last.op = "idle"
  /\ now < MaxTime
  /\ now' = now + 1
  /\ UNCHANGED <<last, repo, qfs, qdir, disk, mem, results, rt, fresh, serial, nops>>
  /\ UNCHANGED <<gvars, xvars>>

(* Environment: somebody creates a file again at a path that is free. *)
Recreate(p, c) ==
  /\ last.op = "idle"
  /\ repo[p] = NoFile
  /\ repo' = [repo EXCEPT ![p] = c]
  /\ rt' = NoRoundTrip
  /\ UNCHANGED <<last, qfs, qdir, disk, mem, now, results, fresh, serial, nops>>
  /\ UNCHANGED <<gvars, xvars>>

(* The caller takes the return value of the operation that just ended. *)
Return ==
  /\ last.op # "idle"
  /\ last' = NoOp
  /\ results' = <<>>
  /\ UNCHANGED <<repo, qfs, qdir, disk, mem, now, rt, fresh, serial, nops>>
  /\ UNCHANGED <<gvars, xvars>>

Batches == SeqsUpTo(Paths, MaxBatch)
(* session_id arguments: none given (generated), or the caller's own id. *)
SessionArgs == {NoSessionId, 0}

(* The operations of instance i. *)
Ops(i) ==
  \/ \E files \in Batches, sidArg \in SessionArgs, dry \in BOOLEAN, fail \in SUBSET Paths :
       MoveToQuarantine(i, files, sidArg, dry, fail)
  \/ \E f \in Paths, dry \in BOOLEAN, fail \in SUBSET Paths : RestoreFile(i, f, dry, fail)
  \/ \E sid \in SessionIds, dry \in BOOLEAN, fail \in SUBSET Paths :
       RestoreSession(i, sid, dry, fail)
  \/ \E f \in Paths, fail \in SUBSET Paths : PermanentlyDelete(i, f, fail)
  \/ \E days \in 0..MaxDays : CleanupOldSessions(i, days)

Env ==
  \/ Tick
  \/ \E p \in Paths : Recreate(p, NumContents)

(* One QuarantineManager at a time: instance 1, possibly constructed anew. *)
Next ==
  \/ Ops(1)
  \/ Construct(1)
  \/ Env
  \/ Return

Spec == Init /\ [][Next]_vars

(* One manager whose batch may be cancelled between two files. *)
NextCancel ==
  \/ Ops(1)
  \/ Construct(1)
  \/ Env
  \/ Return
  \/ \E files \in Batches, sidArg \in SessionArgs, fail \in SUBSET Paths, k \in 1..MaxBatch :
       Cancel(1, files, sidArg, fail, k)

SpecCancel == Init /\ [][NextCancel]_vars

(* Two managers over the same repository, in any interleaving; neither   *)
(* does dry runs and no I/O call fails.                                   *)
InitTwo ==
  /\ repo = [p \in Paths |-> 1]
  /\ qfs = [s \in SessionIds |-> [p \in Paths |-> NoFile]]
  /\ qdir = {}
  /\ disk = [present |-> FALSE, m |-> FreshManifest(0)]
  /\ now = 0
  /\ mem = [i \in Insts |-> [alive |-> TRUE, m |-> FreshManifest(0)]]
  /\ results = <<>>
  /\ last = NoOp
  /\ rt = NoRoundTrip
  /\ fresh = [i \in Insts |-> TRUE]
  /\ serial = TRUE
  /\ nops = 0
  /\ GIdle
  /\ XIdle

OpsTwo ==
  \/ \E i \in Insts, files \in Batches, sidArg \in SessionArgs :
       MoveToQuarantine(i, files, sidArg, FALSE, {})
  \/ \E i \in Insts, f \in Paths : RestoreFile(i, f, FALSE, {})
  \/ \E i \in Insts, sid \in SessionIds : RestoreSession(i, sid, FALSE, {})
  \/ \E i \in Insts, f \in Paths : PermanentlyDelete(i, f, {})
  \/ \E i \in Insts, days \in 0..MaxDays : CleanupOldSessions(i, days)
  \/ \E i \in Insts : Construct(i)

NextTwo ==
  \/ nops < MaxOpsTwo /\ OpsTwo
  \/ Env
  \/ Return

SpecTwo == InitTwo /\ [][NextTwo]_vars


(* ======================= Part I: properties =========================== *)

(* restore_file would move the file back: it has a record that is not     *)
(* restored and whose quarantined copy exists.                            *)
Restorable(man, f) ==
  /\ f \in DOMAIN man.files
  /\ ~man.files[f].restored
  /\ qfs[man.files[f].quarantine_path[1]][man.files[f].quarantine_path[2]] # NoFile

(* An operation begins in this step. *)
Begins(op) == last.op = "idle" /\ last'.op = op

(* C1: a non-dry-run move_to_quarantine of existing files under a session  *)
(* id new to the manifest, followed by restore_session of that id, puts    *)
(* every moved file back at its path with the bytes it had, leaves no copy *)
(* under quarantine/<id>/ and marks its record restored.                   *)
C1_RoundTrip ==
  rt.phase = "restored" =>
    \A p \in Paths :
      rt.snap[p] # NoFile =>
        /\ repo[p] = rt.snap[p]
        /\ qfs[rt.sid][p] = NoFile
        /\ p \in DOMAIN mem[rt.inst].m.files
        /\ mem[rt.inst].m.files[p].restored

C1_Witness ==
  /\ rt.phase = "restored"
  /\ \A p \in Paths : rt.snap[p] # NoFile

(* C2: restore_file on a path whose record already has restored=true       *)
(* returns a failure and changes neither the manifest (in memory, on disk) *)
(* nor any file.                                                           *)
C2_RestoreAlreadyRestored ==
  [][ ( /\ Begins("restore_file")
        /\ last'.path \in DOMAIN mem[last'.inst].m.files
        /\ mem[last'.inst].m.files[last'.path].restored )
      => ( /\ ~results'[1].success
           /\ mem' = mem
           /\ disk' = disk
           /\ repo' = repo
           /\ qfs' = qfs
           /\ qdir' = qdir ) ]_vars

C2_Witness ==
  /\ last.op = "restore_file"
  /\ ~last.dry
  /\ last.path \in DOMAIN mem[last.inst].m.files
  /\ mem[last.inst].m.files[last.path].restored
  /\ ~results[1].success

(* C3: with dry_run=True, move_to_quarantine, restore_file and             *)
(* restore_session change neither the files, nor the in-memory manifest,   *)
(* nor the manifest on disk, and still return a success flagged dry_run    *)
(* for every file that exists (move) or is restorable (restore).           *)
C3_DryRunFrame ==
  [][ ( /\ last.op = "idle"
        /\ last'.op \in {"move_to_quarantine", "restore_file", "restore_session"}
        /\ last'.dry )
      => LET man == mem[last'.inst].m
             idx == FindSession(man.quarantine_sessions, last'.sid)
         IN
         /\ UNCHANGED <<repo, qfs, qdir, mem, disk>>
         /\ last'.op = "move_to_quarantine" =>
              /\ Len(results') = Len(last'.files)
              /\ \A k \in 1..Len(last'.files) :
                   repo[last'.files[k]] # NoFile =>
                     results'[k].success /\ results'[k].dry_run
         /\ last'.op = "restore_file" =>
              (Restorable(man, last'.path) =>
                 results'[1].success /\ results'[1].dry_run)
         /\ (last'.op = "restore_session" /\ idx # 0) =>
              /\ Len(results') = Len(man.quarantine_sessions[idx].files)
              /\ \A k \in 1..Len(results') :
                   Restorable(man, man.quarantine_sessions[idx].files[k]) =>
                     results'[k].success /\ results'[k].dry_run ]_vars

C3_Witness ==
  /\ last.op = "move_to_quarantine"
  /\ last.dry
  /\ Len(results) = 2
  /\ last.files[1] # last.files[2]
  /\ results[1].success /\ results[1].dry_run
  /\ results[2].success /\ results[2].dry_run

(* C4: once a record has restored=true or deleted=true, no operation       *)
(* changes either flag of that path's record again.                        *)
C4_TerminalStates ==
  [][ \A p \in DOMAIN mem[1].m.files :
        (mem[1].m.files[p].restored \/ mem[1].m.files[p].deleted) =>
          /\ p \in DOMAIN mem'[1].m.files
          /\ mem'[1].m.files[p].restored = mem[1].m.files[p].restored
          /\ mem'[1].m.files[p].deleted = mem[1].m.files[p].deleted ]_vars

(* C5: in every manifest, in memory or on disk, each path of each session  *)
(* record is a key of the files map and files_count is the length of the   *)
(* session's file list.                                                    *)
SessionsConsistent(man) ==
  \A k \in 1..Len(man.quarantine_sessions) :
    LET session == man.quarantine_sessions[k]
    IN /\ Range(session.files) \subseteq DOMAIN man.files
       /\ session.files_count = Len(session.files)

C5_SessionFilesAreKeys ==
  /\ disk.present => SessionsConsistent(disk.m)
  /\ \A i \in Insts : mem[i].alive => SessionsConsistent(mem[i].m)

C5_Witness ==
  /\ disk.present
  /\ Len(disk.m.quarantine_sessions) = MaxSessions
  /\ \A k \in 1..MaxSessions : disk.m.quarantine_sessions[k].files_count >= 1

(* C6: move_to_quarantine returns one result per input path, in input      *)
(* order; a path that does not exist (any more) or whose move fails gets a *)
(* failure and stays as it was, and every other existing file of the batch *)
(* is moved and recorded in the files map, in the session and on disk.     *)
C6_PerFileResults ==
  [][ Begins("move_to_quarantine") =>
      LET files == last'.files
          fail == last'.fail
          sid == last'.sid
          dry == last'.dry
          man2 == mem'[last'.inst].m
          n == Len(man2.quarantine_sessions)
          Good(p) == repo[p] # NoFile /\ p \notin fail
      IN
      /\ Len(results') = Len(files)
      /\ \A k \in 1..Len(files) :
           /\ results'[k].original_path = files[k]
           /\ results'[k].success =
                (Good(files[k]) /\ (dry \/ \A j \in 1..(k - 1) : files[j] # files[k]))
      /\ \A p \in Range(files) :
           IF Good(p) /\ ~dry
           THEN /\ repo'[p] = NoFile
                /\ qfs'[sid][p] = repo[p]
                /\ p \in DOMAIN man2.files
                /\ man2.files[p].session_id = sid
                /\ ~man2.files[p].restored
                /\ n >= 1
                /\ man2.quarantine_sessions[n].session_id = sid
                /\ p \in Range(man2.quarantine_sessions[n].files)
                /\ disk' = [present |-> TRUE, m |-> man2]
           ELSE repo'[p] = repo[p] ]_vars

C6_Witness ==
  /\ last.op = "move_to_quarantine"
  /\ ~last.dry
  /\ Len(results) = 2
  /\ ~results[1].success
  /\ results[2].success
  /\ last.files[1] \in last.fail
  /\ qfs[last.sid][last.files[2]] # NoFile

(* C7: every copy that lies under quarantine/<session>/ is the one the     *)
(* manifest record of its original path points at.                         *)
C7_CopiesReferenced ==
  \A s \in SessionIds, p \in Paths :
    qfs[s][p] # NoFile =>
      /\ p \in DOMAIN mem[1].m.files
      /\ mem[1].m.files[p].quarantine_path = <<s, p>>

(* C8: after a batch was cancelled between two files, every file that lies *)
(* in quarantine has an entry in the manifest on disk.                     *)
C8_CancelledBatchRecorded ==
  last.op = "cancel" =>
    \A s \in SessionIds, p \in Paths :
      qfs[s][p] # NoFile => (disk.present /\ p \in DOMAIN disk.m.files)

(* C9: while no manager stores over a manifest it has not loaded (the      *)
(* managers are serialized), no store removes a session record or a file   *)
(* record from the manifest on disk: it keeps those of every manager.      *)
C9_SerializedKeepsAll ==
  [][ serial' =>
        /\ disk.present => disk'.present
        /\ Range(disk.m.quarantine_sessions) \subseteq Range(disk'.m.quarantine_sessions)
        /\ DOMAIN disk.m.files \subseteq DOMAIN disk'.m.files ]_vars

C9_Witness ==
  /\ serial
  /\ last.op = "move_to_quarantine"
  /\ last.inst = 2
  /\ Len(mem[1].m.quarantine_sessions) = 1
  /\ Len(disk.m.quarantine_sessions) = 2
  /\ disk.m.quarantine_sessions[1] = mem[1].m.quarantine_sessions[1]

(* The other half of C9: the state after a lost update, where a file lies  *)
(* in quarantine and the manifest on disk has neither a file record nor a  *)
(* session listing it.  (Reachable under SpecTwo: its negation is no       *)
(* invariant.)                                                             *)
C9_LostUpdate ==
  /\ ~serial
  /\ \E s \in SessionIds, p \in Paths :
       /\ qfs[s][p] # NoFile
       /\ p \notin DOMAIN disk.m.files
       /\ \A k \in 1..Len(disk.m.quarantine_sessions) :
            p \notin Range(disk.m.quarantine_sessions[k].files)

C9_NoLostUpdate == ~C9_LostUpdate


(* ============ Part II: DependencyGraphBuilder.get_orphaned_files ====== *)

(* The orders in which Python may iterate over the set S. *)
Orders(S) ==
  {q \in [1..Cardinality(S) -> S] : \A a, b \in DOMAIN q : q[a] = q[b] => a = b}

(* forward_graph.get(current, set()) *)
Get(graph, n) == IF n \in DOMAIN graph THEN graph[n] ELSE {}

(* The arguments of a call: any dict from files to sets of files with at   *)
(* most MaxEdges edges, any set of at most MaxEntryPoints entry points;    *)
(* queue = list(entry_points), visited = set().                            *)
OrphanInit ==
  /\ QInit
  /\ XIdle
  /\ \E keys \in SUBSET Nodes :
       \E edges \in SUBSET (keys \X Nodes) :
         /\ Cardinality(edges) <= MaxEdges
         /\ forward_graph = [n \in keys |-> {m \in Nodes : <<n, m>> \in edges}]
  /\ entry_points \in {e \in SUBSET Nodes : Cardinality(e) <= MaxEntryPoints}
  /\ queue \in Orders(entry_points)
  /\ visited = {}
  /\ orphaned = {}
  /\ pc = "bfs"

BfsVisitNoEnqueue ==
  /\ pc = "bfs"
  /\ queue # <<>>
  /\ Head(queue) \notin visited
  /\ visited' = visited \cup {Head(queue)}
  /\ queue' = Tail(queue)
  /\ UNCHANGED <<forward_graph, entry_points, orphaned, pc>>
  /\ UNCHANGED <<qvars, xvars>>

(* One iteration of the while loop: current is new, it is marked and the  *)
(* files it imports that are not yet visited are appended.                *)
BfsVisit ==
  /\ pc = "bfs"
  /\ queue # <<>>
  /\ Head(queue) \notin visited
  /\ visited' = visited \cup {Head(queue)}
  /\ \E deps \in Orders(Get(forward_graph, Head(queue)) \ visited') :
       queue' = Tail(queue) \o deps
  /\ UNCHANGED <<forward_graph, entry_points, orphaned, pc>>
  /\ UNCHANGED <<qvars, xvars>>

(* One iteration of the while loop: current was visited already. *)
BfsSkip ==
  /\ pc = "bfs"
  /\ queue # <<>>
  /\ Head(queue) \in visited
  /\ queue' = Tail(queue)
  /\ UNCHANGED <<forward_graph, entry_points, visited, orphaned, pc>>
  /\ UNCHANGED <<qvars, xvars>>

(* The queue is empty: orphaned = all_files - visited is returned. *)
BfsReturn ==
  /\ pc = "bfs"
  /\ queue = <<>>
  /\ orphaned' = (DOMAIN forward_graph) \ visited
  /\ pc' = "done"
  /\ UNCHANGED <<forward_graph, entry_points, visited, queue>>
  /\ UNCHANGED <<qvars, xvars>>

OrphanNext ==
  \/ BfsVisit
  \/ BfsSkip
  \/ BfsReturn

SpecOrphan == OrphanInit /\ [][OrphanNext]_vars

(* The nodes that a path of forward edges (of any length, 0 included)     *)
(* leads to from a node of S.                                             *)
RECURSIVE ReachableFrom(_, _)
ReachableFrom(graph, S) ==
  LET next == S \cup UNION {Get(graph, n) : n \in S}
  IN IF next = S THEN S ELSE ReachableFrom(graph, next)

(* C10: get_orphaned_files returns exactly the keys of the forward graph   *)
(* that no path of forward edges reaches from an entry point.              *)
C10_OrphansAreUnreachableKeys ==
  pc = "done" =>
    orphaned = {n \in DOMAIN forward_graph :
                  n \notin ReachableFrom(forward_graph, entry_points)}

(* A -> B -> C with entry point A and an unconnected D: the result is {D}. *)
C10_Witness ==
  /\ pc = "done"
  /\ DOMAIN forward_graph = 1..4
  /\ forward_graph[1] = {2}
  /\ forward_graph[2] = {3}
  /\ forward_graph[3] = {}
  /\ forward_graph[4] = {}
  /\ entry_points = {1}
  /\ orphaned = {4}

(* ====================== Part III: the file court ====================== *)
(* ProsecutorAgent, DefenseAgent, JudgeAgent and FileCourt (agents/*.py).  *)
(* Numbers: an evidence weight or strength w is the integer 100*w; a       *)
(* Judge score is the integer 1000*score; a prosecution score (0-100) is   *)
(* the integer 10*score.  The Judge's weights are kept as numerators over  *)
(* a common denominator, so that every comparison with a threshold is an   *)
(* exact integer comparison.  A file is a file at the repository root and  *)
(* file_path is its name; descriptions, arguments, summaries and printed   *)
(* output are left out.                                                    *)

Min(a, b) == IF a <= b THEN a ELSE b
Max(a, b) == IF a >= b THEN a ELSE b
Abs(a) == IF a >= 0 THEN a ELSE -a

(* dict.get(k, default) *)
DictGet(d, k, default) == IF k \in DOMAIN d THEN d[k] ELSE default

(* e.get("category") of an evidence dict without that key *)
None == "None"

(* p in s, for strings *)
Contains(s, p) == \E i \in 1..(Len(s) - Len(p) + 1) : SubSeq(s, i, i + Len(p) - 1) = p

(* str.lower(), one character *)
LowerChar(c) ==
  CASE c = "A" -> "a" [] c = "B" -> "b" [] c = "C" -> "c" [] c = "D" -> "d"
    [] c = "E" -> "e" [] c = "F" -> "f" [] c = "G" -> "g" [] c = "H" -> "h"
    [] c = "I" -> "i" [] c = "J" -> "j" [] c = "K" -> "k" [] c = "L" -> "l"
    [] c = "M" -> "m" [] c = "N" -> "n" [] c = "O" -> "o" [] c = "P" -> "p"
    [] c = "Q" -> "q" [] c = "R" -> "r" [] c = "S" -> "s" [] c = "T" -> "t"
    [] c = "U" -> "u" [] c = "V" -> "v" [] c = "W" -> "w" [] c = "X" -> "x"
    [] c = "Y" -> "y" [] c = "Z" -> "z" [] OTHER -> c

RECURSIVE Lower(_)
Lower(s) == IF Len(s) = 0 THEN "" ELSE LowerChar(SubSeq(s, 1, 1)) \o Lower(SubSeq(s, 2, Len(s)))

(* Position of the dot that starts Path(name).suffix, 0 if there is none   *)
(* (a leading dot starts no suffix).                                       *)
SuffixAt(name) ==
  LET dots == {i \in 2..Len(name) : SubSeq(name, i, i) = "."}
  IN IF dots = {} THEN 0 ELSE CHOOSE i \in dots : \A j \in dots : j <= i

(* Path(name).suffix and Path(name).stem *)
Suffix(name) == IF SuffixAt(name) = 0 THEN "" ELSE SubSeq(name, SuffixAt(name), Len(name))
Stem(name) == IF SuffixAt(name) = 0 THEN name ELSE SubSeq(name, 1, SuffixAt(name) - 1)

(* ------------------------------ JudgeAgent ----------------------------- *)
QUARANTINE_THRESHOLD == 65
KEEP_THRESHOLD == 55
REVIEW_THRESHOLD == 15

HIGH_RISK_PATTERNS ==
  {"auth", "security", "config", "main", "index", "server", "app", "core", "base",
   "util", "helper", "api", "gateway", "__init__", "setup", "install", "deploy", "build"}

CRITICAL_PROSECUTION == {"NO_IMPORTS", "NO_REFERENCES", "STALE", "EXACT_DUPLICATE"}
CRITICAL_DEFENSE == {"IMPORT_DEPENDENCY", "ENTRY_POINT", "CONFIGURATION_FILE", "INTEGRATION"}

(* The loop of _calculate_prosecution_score / _calculate_defense_score     *)
(* over case["evidence"], in thousandths.                                  *)
RECURSIVE SumStrength(_, _)
SumStrength(ev, critical) ==
  IF ev = <<>> THEN 0
  ELSE LET strength == DictGet(Head(ev), "strength", 0)
           category == DictGet(Head(ev), "category", "")
       IN (IF category \in critical THEN 15 * strength ELSE 10 * strength)
          + SumStrength(Tail(ev), critical)

(* _calculate_prosecution_score, in thousandths *)
CalculateProsecutionScore(case) ==
  LET ev == DictGet(case, "evidence", <<>>)
      sum == SumStrength(ev, CRITICAL_PROSECUTION)
      evidence_categories == {DictGet(ev[i], "category", None) : i \in DOMAIN ev}
  IN IF Cardinality(evidence_categories) >= 3 THEN (sum * 12) \div 10 ELSE sum

(* _calculate_defense_score, in thousandths; import_chain and              *)
(* referenced_by are kept as their lengths.                                *)
CalculateDefenseScore(case) ==
  LET ev == DictGet(case, "evidence", <<>>)
      import_chain == DictGet(case, "import_chain", 0)
      referenced_by == DictGet(case, "referenced_by", 0)
  IN SumStrength(ev, CRITICAL_DEFENSE)
     + (IF import_chain > 0 THEN Min(1000, import_chain * 200) ELSE 0)
     + (IF referenced_by > 0 THEN Min(800, referenced_by * 150) ELSE 0)

(* _is_high_risk *)
IsHighRisk(path) ==
  LET filename == Lower(path)
      stem == Lower(Stem(path))
  IN \E pattern \in HIGH_RISK_PATTERNS : Contains(filename, pattern) \/ Contains(stem, pattern)

(* dissent[:3] *)
MaxDissentingPoints == 3

(* _identify_dissenting_points: the number of points returned *)
IdentifyDissentingPoints(prosecution, defense, prosecution_won) ==
  LET losing_case == IF prosecution_won THEN defense ELSE prosecution
      ev == DictGet(losing_case, "evidence", <<>>)
  IN Min(MaxDissentingPoints,
         Cardinality({i \in DOMAIN ev : DictGet(ev[i], "strength", 0) >= 70}))

(* A confidence c is the record [h, den] with c = h / (100 * den). *)
Conf(h, den) == [h |-> h, den |-> den]

(* _make_decision with the close-call rule tried after the moderate-edge   *)
(* rules instead of before them.                                           *)
MakeDecisionReviewLast(prosecution_weight, defense_weight, den, is_high_risk, dissenting_points) ==
  LET difference == prosecution_weight - defense_weight
  IN IF 100 * difference > QUARANTINE_THRESHOLD * den
     THEN IF is_high_risk /\ dissenting_points > 0
          THEN [decision |-> "REVIEW_NEEDED", confidence |-> Conf(60 * den, den)]
          ELSE [decision |-> "QUARANTINE",
                confidence |-> Conf(Min(95 * den, 50 * den + 100 * difference), den)]
     ELSE IF 100 * difference < -(KEEP_THRESHOLD * den)
     THEN [decision |-> "KEEP",
           confidence |-> Conf(Min(95 * den, 50 * den + 100 * Abs(difference)), den)]
     ELSE IF difference > 0
     THEN IF is_high_risk
          THEN [decision |-> "REVIEW_NEEDED", confidence |-> Conf(55 * den, den)]
          ELSE [decision |-> "QUARANTINE", confidence |-> Conf(60 * den + 30 * difference, den)]
     ELSE IF difference < 0
     THEN [decision |-> "KEEP", confidence |-> Conf(60 * den + 30 * Abs(difference), den)]
     ELSE [decision |-> "KEEP", confidence |-> Conf(60 * den, den)]

(* _make_decision with >= and <= where the code compares strictly. *)
MakeDecisionInclusive(prosecution_weight, defense_weight, den, is_high_risk, dissenting_points) ==
  LET difference == prosecution_weight - defense_weight
  IN IF 100 * difference >= QUARANTINE_THRESHOLD * den
     THEN IF is_high_risk /\ dissenting_points > 0
          THEN [decision |-> "REVIEW_NEEDED", confidence |-> Conf(60 * den, den)]
          ELSE [decision |-> "QUARANTINE",
                confidence |-> Conf(Min(95 * den, 50 * den + 100 * difference), den)]
     ELSE IF 100 * difference <= -(KEEP_THRESHOLD * den)
     THEN [decision |-> "KEEP",
           confidence |-> Conf(Min(95 * den, 50 * den + 100 * Abs(difference)), den)]
     ELSE IF 100 * Abs(difference) <= REVIEW_THRESHOLD * den
     THEN [decision |-> "REVIEW_NEEDED", confidence |-> Conf(50 * den, den)]
     ELSE IF difference > 0
     THEN IF is_high_risk
          THEN [decision |-> "REVIEW_NEEDED", confidence |-> Conf(55 * den, den)]
          ELSE [decision |-> "QUARANTINE", confidence |-> Conf(60 * den + 30 * difference, den)]
     ELSE [decision |-> "KEEP", confidence |-> Conf(60 * den + 30 * Abs(difference), den)]

(* _make_decision; the weights are prosecution_weight / den and            *)
(* defense_weight / den, dissenting_points is the length of the list.      *)
MakeDecision(prosecution_weight, defense_weight, den, is_high_risk, dissenting_points) ==
  LET difference == prosecution_weight - defense_weight
  IN IF 100 * difference > QUARANTINE_THRESHOLD * den
     THEN IF is_high_risk /\ dissenting_points > 0
          THEN [decision |-> "REVIEW_NEEDED", confidence |-> Conf(60 * den, den)]
          ELSE [decision |-> "QUARANTINE",
                confidence |-> Conf(Min(95 * den, 50 * den + 100 * difference), den)]
     ELSE IF 100 * difference < -(KEEP_THRESHOLD * den)
     THEN [decision |-> "KEEP",
           confidence |-> Conf(Min(95 * den, 50 * den + 100 * Abs(difference)), den)]
     ELSE IF 100 * Abs(difference) < REVIEW_THRESHOLD * den
     THEN [decision |-> "REVIEW_NEEDED", confidence |-> Conf(50 * den, den)]
     ELSE IF difference > 0
     THEN IF is_high_risk
          THEN [decision |-> "REVIEW_NEEDED", confidence |-> Conf(55 * den, den)]
          ELSE [decision |-> "QUARANTINE", confidence |-> Conf(60 * den + 30 * difference, den)]
     ELSE [decision |-> "KEEP", confidence |-> Conf(60 * den + 30 * Abs(difference), den)]

(* round(n / d, 3), in thousandths (ties to even) *)
Round3(n, d) ==
  LET q == (1000 * n) \div d
      r == (1000 * n) % d
  IN IF 2 * r > d \/ (2 * r = d /\ q % 2 = 1) THEN q + 1 ELSE q

(* judge with conservative mode taking 15% off the defense score. *)
JudgeConservativeCutsDefense(path, prosecution, defense, conservative) ==
  LET prosecution_score == 80 * CalculateProsecutionScore(prosecution)
      is_high_risk == IsHighRisk(path)
      defense_score == CalculateDefenseScore(defense)
                         * (IF conservative THEN 17 ELSE 20)
                         * (IF is_high_risk THEN 5 ELSE 4)
      total == prosecution_score + defense_score
      den == IF total > 0 THEN total ELSE 2
      prosecution_weight == IF total > 0 THEN prosecution_score ELSE 1
      defense_weight == IF total > 0 THEN defense_score ELSE 1
      dissenting_points ==
        IdentifyDissentingPoints(prosecution, defense, prosecution_weight > defense_weight)
      made == MakeDecision(prosecution_weight, defense_weight, den,
                           is_high_risk, dissenting_points)
  IN [file_path |-> path,
      decision |-> made.decision,
      confidence |-> made.confidence,
      reasoning |-> [prosecution_weight |-> Round3(prosecution_weight, den),
                     defense_weight |-> Round3(defense_weight, den),
                     dissenting_points |-> dissenting_points]]

(* JudgeAgent.judge: conservative mode is x1.15 = 23/20 and high risk is   *)
(* x1.25 = 5/4 on the defense score, so both scores are taken in units of  *)
(* 1/80000.                                                                *)
Judge(path, prosecution, defense, conservative) ==
  LET prosecution_score == 80 * CalculateProsecutionScore(prosecution)
      is_high_risk == IsHighRisk(path)
      defense_score == CalculateDefenseScore(defense)
                         * (IF conservative THEN 23 ELSE 20)
                         * (IF is_high_risk THEN 5 ELSE 4)
      total == prosecution_score + defense_score
      den == IF total > 0 THEN total ELSE 2
      prosecution_weight == IF total > 0 THEN prosecution_score ELSE 1
      defense_weight == IF total > 0 THEN defense_score ELSE 1
      dissenting_points ==
        IdentifyDissentingPoints(prosecution, defense, prosecution_weight > defense_weight)
      made == MakeDecision(prosecution_weight, defense_weight, den,
                           is_high_risk, dissenting_points)
  IN [file_path |-> path,
      decision |-> made.decision,
      confidence |-> made.confidence,
      reasoning |-> [prosecution_weight |-> Round3(prosecution_weight, den),
                     defense_weight |-> Round3(defense_weight, den),
                     dissenting_points |-> dissenting_points]]

(* --------------------- the Judge on arbitrary cases -------------------- *)
(* File names the court meets. *)
FileNames == {"legacy_util_old.py", "report_old.py", "README.md", "main.py", "data.py"}

(* Evidence dicts a prosecution case may hold: with the keys the Judge     *)
(* reads, and (the last one) with the keys ProsecutionCase.to_dict writes. *)
JudgeProsecutionItems ==
  {[category |-> "NO_IMPORTS", strength |-> 80],
   [category |-> "STALE", strength |-> 30],
   [category |-> "orphan", strength |-> 80],
   [type |-> "orphan", severity |-> "critical", weight |-> 80]}

(* Evidence dicts of a defense case (DefenseCase.to_dict). *)
JudgeDefenseItems ==
  {[category |-> "ENTRY_POINT", strength |-> 90],
   [category |-> "README", strength |-> 40]}

JudgeInit ==
  /\ QInit
  /\ GIdle
  /\ NIdle
  /\ facts = <<>>
  /\ suspects = <<>>
  /\ evidence = <<>>
  /\ score = <<>>
  /\ verdict = <<>>
  /\ \/ /\ cpc = "judge"
        /\ file_path \in FileNames
        /\ conservative_mode \in BOOLEAN
        /\ \E ev \in SeqsUpTo(JudgeProsecutionItems, MaxJudgeEvidence) :
             prosecution_case = [file_path |-> file_path, evidence |-> ev]
        /\ \E ev \in SeqsUpTo(JudgeDefenseItems, MaxDefenseEvidence) :
             \E chain \in {0, MaxChain} : \E refs \in {0, MaxRefs} :
               defense_case = [file_path |-> file_path, evidence |-> ev,
                               import_chain |-> chain, referenced_by |-> refs]
     \/ /\ cpc = "decide"
        /\ file_path = ""
        /\ conservative_mode = TRUE
        /\ prosecution_case = <<>>
        /\ defense_case = <<>>

(* judge(prosecution_case, defense_case) *)
JudgeCall ==
  /\ cpc = "judge"
  /\ verdict' = Judge(prosecution_case.file_path, prosecution_case, defense_case,
                      conservative_mode)
  /\ cpc' = "judged"
  /\ UNCHANGED <<file_path, facts, conservative_mode, prosecution_case, defense_case,
                 suspects, evidence, score>>
  /\ UNCHANGED <<qvars, gvars, nvars>>

(* _make_decision(pw / DecisionGrid, dw / DecisionGrid, hr, dp) *)
MakeDecisionCall(pw, dw, hr, dp) ==
  /\ cpc = "decide"
  /\ verdict' = [prosecution_weight |-> pw, defense_weight |-> dw, is_high_risk |-> hr,
                 dissenting_points |-> dp,
                 made |-> MakeDecision(pw, dw, DecisionGrid, hr, dp)]
  /\ cpc' = "decided"
  /\ UNCHANGED <<file_path, facts, conservative_mode, prosecution_case, defense_case,
                 suspects, evidence, score>>
  /\ UNCHANGED <<qvars, gvars, nvars>>

JudgeNext ==
  \/ JudgeCall
  \/ \E pw \in 0..DecisionGrid, dw \in 0..DecisionGrid, hr \in BOOLEAN,
        dp \in 0..MaxDissentingPoints :
       MakeDecisionCall(pw, dw, hr, dp)

SpecJudge == JudgeInit /\ [][JudgeNext]_vars

(* ratio of a confidence to a number of hundredths *)
ConfIs(c, hundredths) == c.h = hundredths * c.den
ConfAtLeast(c, hundredths) == c.h >= hundredths * c.den
ConfAtMost(c, hundredths) == c.h <= hundredths * c.den

(* C11: when the prosecution case and the defense case both carry no       *)
(* evidence, and the defense has an empty import chain and no referencing  *)
(* files, judge normalises to weights 0.5/0.5 and returns REVIEW_NEEDED    *)
(* with confidence 0.5, never QUARANTINE, in both modes and for high-risk  *)
(* and ordinary file names.                                                *)
BothCasesEmpty ==
  /\ cpc = "judged"
  /\ prosecution_case.evidence = <<>>
  /\ defense_case.evidence = <<>>
  /\ defense_case.import_chain = 0
  /\ defense_case.referenced_by = 0

C11_ZeroEvidenceNeedsReview ==
  BothCasesEmpty =>
    /\ verdict.reasoning.prosecution_weight = 500
    /\ verdict.reasoning.defense_weight = 500
    /\ verdict.decision = "REVIEW_NEEDED"
    /\ verdict.decision # "QUARANTINE"
    /\ ConfIs(verdict.confidence, 50)

C11_Witness ==
  /\ BothCasesEmpty
  /\ ~conservative_mode
  /\ IsHighRisk(file_path)
  /\ verdict.decision = "REVIEW_NEEDED"

C11_WitnessOrdinary ==
  /\ BothCasesEmpty
  /\ conservative_mode
  /\ ~IsHighRisk(file_path)
  /\ verdict.decision = "REVIEW_NEEDED"

(* C18: _make_decision is a total function of d = prosecution_weight -     *)
(* defense_weight, high_risk and the dissenting points that implements the *)
(* decision table: d > 0.65 gives QUARANTINE at min(0.95, 0.5 + d), or     *)
(* REVIEW_NEEDED(0.6) when high_risk and a dissenting point exists;        *)
(* d < -0.55 gives KEEP at min(0.95, 0.5 + |d|); |d| < 0.15 gives          *)
(* REVIEW_NEEDED(0.5); the remaining d > 0 give REVIEW_NEEDED(0.55) if     *)
(* high_risk else QUARANTINE(0.6 + 0.3 d); the remaining d <= 0 give       *)
(* KEEP(0.6 + 0.3 |d|); the confidence always lies in [0.5, 0.95].         *)
DecisionTable(d, den, hr, dp, made) ==
  /\ made.decision \in {"KEEP", "QUARANTINE", "REVIEW_NEEDED"}
  /\ (100 * d > 65 * den /\ hr /\ dp > 0) =>
       (made.decision = "REVIEW_NEEDED" /\ ConfIs(made.confidence, 60))
  /\ (100 * d > 65 * den /\ ~(hr /\ dp > 0)) =>
       /\ made.decision = "QUARANTINE"
       /\ made.confidence.h = Min(95 * den, 50 * den + 100 * d)
  /\ (100 * d < -(55 * den)) =>
       /\ made.decision = "KEEP"
       /\ made.confidence.h = Min(95 * den, 50 * den - 100 * d)
  /\ (-(15 * den) < 100 * d /\ 100 * d < 15 * den) =>
       (made.decision = "REVIEW_NEEDED" /\ ConfIs(made.confidence, 50))
  /\ (15 * den <= 100 * d /\ 100 * d <= 65 * den /\ hr) =>
       (made.decision = "REVIEW_NEEDED" /\ ConfIs(made.confidence, 55))
  /\ (15 * den <= 100 * d /\ 100 * d <= 65 * den /\ ~hr) =>
       (made.decision = "QUARANTINE" /\ made.confidence.h = 60 * den + 30 * d)
  /\ (-(55 * den) <= 100 * d /\ 100 * d <= -(15 * den)) =>
       (made.decision = "KEEP" /\ made.confidence.h = 60 * den - 30 * d)
  /\ made.confidence.den = den
  /\ ConfAtLeast(made.confidence, 50)
  /\ ConfAtMost(made.confidence, 95)

C18_DecisionTable ==
  cpc = "decided" =>
    DecisionTable(verdict.prosecution_weight - verdict.defense_weight, DecisionGrid,
                  verdict.is_high_risk, verdict.dissenting_points, verdict.made)

(* d = 0.65 exactly, not high-risk: the moderate rule, QUARANTINE(0.795). *)
C18_Witness ==
  /\ cpc = "decided"
  /\ 100 * (verdict.prosecution_weight - verdict.defense_weight) = 65 * DecisionGrid
  /\ ~verdict.is_high_risk
  /\ verdict.made.decision = "QUARANTINE"
  /\ 2 * verdict.made.confidence.h = 159 * DecisionGrid

(* --------------------------- ProsecutorAgent --------------------------- *)
(* round(x, 1) of x given in thousandths, in tenths (ties to even) *)
Round1(x) ==
  LET q == x \div 100
      r == x % 100
  IN IF r > 50 \/ (r = 50 /\ q % 2 = 1) THEN q + 1 ELSE q

(* sum(max(0, e.weight) for e in case.evidence), in hundredths *)
RECURSIVE TotalWeight(_)
TotalWeight(ev) ==
  IF ev = <<>> THEN 0 ELSE Max(0, Head(ev).weight) + TotalWeight(Tail(ev))

(* The severity loop of _calculate_score: the multiplier, in tenths. *)
RECURSIVE SeverityMultiplier(_, _)
SeverityMultiplier(ev, m) ==
  IF ev = <<>> THEN m
  ELSE SeverityMultiplier(Tail(ev),
         IF Head(ev).severity = "critical" THEN Max(m, 15)
         ELSE IF Head(ev).severity = "major" THEN Max(m, 12)
         ELSE m)

(* _calculate_score with the multiplier of the last evidence item that     *)
(* has one, instead of the largest.                                        *)
CalculateScoreLastSeverity(ev) ==
  LET sev == {i \in DOMAIN ev : ev[i].severity \in {"critical", "major"}}
      last_sev == CHOOSE i \in sev : \A j \in sev : j <= i
      m == IF sev = {} THEN 10 ELSE IF ev[last_sev].severity = "critical" THEN 15 ELSE 12
  IN IF ev = <<>> THEN 0
     ELSE Round1(Min(100000, TotalWeight(ev) * 40 * m))

(* _calculate_score of a case with evidence list ev, in tenths (0..1000) *)
CalculateScore(ev) ==
  IF ev = <<>> THEN 0
  ELSE Round1(Min(100000, TotalWeight(ev) * 40 * SeverityMultiplier(ev, 10)))

(* ------------------- scores of a growing evidence list ----------------- *)
(* Evidence objects of the Prosecutor: weight is -1.0 to 1.0. *)
ScoreEvidenceItems ==
  {[type |-> "t", severity |-> sv, weight |-> w] :
     sv \in {"critical", "major", "minor"}, w \in {-50, 0, 33, 80}}

(* Evidence dicts as the Judge reads them: strength is 0.0 to 1.0. *)
ScoreJudgeItems ==
  {[category |-> c, strength |-> st] :
     c \in {"NO_IMPORTS", "STALE", "orphan", "duplicate"}, st \in {0, 33, 80}}

ScoreOf(scorer, ev) ==
  IF scorer = "prosecutor" THEN CalculateScore(ev)
  ELSE CalculateProsecutionScore([evidence |-> ev])

ScoreInit ==
  /\ QInit
  /\ GIdle
  /\ NIdle
  /\ file_path = ""
  /\ facts = <<>>
  /\ conservative_mode = TRUE
  /\ prosecution_case = <<>>
  /\ defense_case = <<>>
  /\ verdict = <<>>
  /\ suspects = <<>>
  /\ cpc \in {"prosecutor", "judge"}
  /\ evidence \in SeqsUpTo(IF cpc = "prosecutor" THEN ScoreEvidenceItems ELSE ScoreJudgeItems,
                           MaxScoreEvidence)
  /\ score = [appended |-> FALSE, before |-> 0, after |-> ScoreOf(cpc, evidence)]

(* One more evidence item e is appended and the score is taken again. *)
AppendEvidence(e) ==
  /\ cpc \in {"prosecutor", "judge"}
  /\ Len(evidence) <= MaxScoreEvidence
  /\ evidence' = Append(evidence, e)
  /\ score' = [appended |-> TRUE, before |-> score.after, after |-> ScoreOf(cpc, evidence')]
  /\ UNCHANGED <<file_path, facts, conservative_mode, prosecution_case, defense_case,
                 verdict, suspects, cpc>>
  /\ UNCHANGED <<qvars, gvars, nvars>>

ScoreNext ==
  \/ /\ cpc = "prosecutor"
     /\ \E e \in {x \in ScoreEvidenceItems : x.weight > 0} : AppendEvidence(e)
  \/ /\ cpc = "judge"
     /\ \E e \in {x \in ScoreJudgeItems : x.strength > 0} : AppendEvidence(e)

SpecScore == ScoreInit /\ [][ScoreNext]_vars

(* C12: adding one more evidence item with positive weight never decreases *)
(* the prosecution score, for ProsecutorAgent._calculate_score and for     *)
(* JudgeAgent._calculate_prosecution_score.                                *)
C12_ScoreMonotone == score.appended => score.after >= score.before

(* A minor item appended to a list that holds a critical one, below the    *)
(* cap of 100: the score grows.                                            *)
C12_Witness ==
  /\ cpc = "prosecutor"
  /\ score.appended
  /\ evidence[Len(evidence)].severity = "minor"
  /\ \E i \in 1..(Len(evidence) - 1) : evidence[i].severity = "critical"
  /\ score.before > 0
  /\ score.after > score.before

(* The Judge's score crossing to three distinct categories. *)
C12_WitnessJudge ==
  /\ cpc = "judge"
  /\ score.appended
  /\ Cardinality({evidence[i].category : i \in DOMAIN evidence}) = 3
  /\ Cardinality({evidence[i].category : i \in 1..(Len(evidence) - 1)}) = 2
  /\ score.after > score.before

(* ------------------- what the agents find out about a file ------------- *)
(* facts holds the measurements the agents take of the file's content, of  *)
(* their import and reference indexes and of the git history; the checks   *)
(* below apply the code's thresholds to them.  The file's name is matched  *)
(* against the code's patterns character by character.                     *)
WordChars ==
  {"a", "b", "c", "d", "e", "f", "g", "h", "i", "j", "k", "l", "m", "n", "o", "p", "q",
   "r", "s", "t", "u", "v", "w", "x", "y", "z", "0", "1", "2", "3", "4", "5", "6", "7",
   "8", "9", "_"}
Digits == {"0", "1", "2", "3", "4", "5", "6", "7", "8", "9"}

(* \b at position i of s (between s[i-1] and s[i]), after a word character *)
WordEndsBefore(s, i) == i > Len(s) \/ SubSeq(s, i, i) \notin WordChars

(* re.search(lit + r"\b", s) for a literal that ends in a word character *)
SearchWordEnd(s, lit) ==
  \E i \in 1..(Len(s) - Len(lit) + 1) :
    SubSeq(s, i, i + Len(lit) - 1) = lit /\ WordEndsBefore(s, i + Len(lit))

(* re.search(lit + "$", s) *)
SearchAtEnd(s, lit) == Len(s) >= Len(lit) /\ SubSeq(s, Len(s) - Len(lit) + 1, Len(s)) = lit

(* re.search(open + r"\d+" + close, s), close = "\b" when wordEnd *)
SearchDigits(s, open, close, wordEnd) ==
  \E i \in 1..Len(s) : \E n \in 1..Len(s) :
    /\ i + Len(open) + n - 1 <= Len(s)
    /\ SubSeq(s, i, i + Len(open) - 1) = open
    /\ \A k \in 0..(n - 1) : SubSeq(s, i + Len(open) + k, i + Len(open) + k) \in Digits
    /\ IF wordEnd THEN WordEndsBefore(s, i + Len(open) + n)
       ELSE SubSeq(s, i + Len(open) + n, i + Len(open) + n + Len(close) - 1) = close

(* OBSOLETE_PATTERNS, searched in the lowercased name with re.IGNORECASE *)
ObsoleteWordEnd ==
  {"_old", "_backup", "_bak", "_copy", "_deprecated", "_unused", "_archive", "_legacy",
   "_temp", "_tmp", "_test_old"}

MatchesObsoletePattern(file_name) ==
  \/ \E lit \in ObsoleteWordEnd : SearchWordEnd(file_name, lit)
  \/ SearchAtEnd(file_name, ".bak")
  \/ SearchAtEnd(file_name, ".tmp")
  \/ SearchAtEnd(file_name, "~")
  \/ SearchDigits(file_name, "_v", "", TRUE)
  \/ SearchDigits(file_name, "(", ")", FALSE)
  \/ Contains(file_name, "copy of")

(* Evidence(type, severity, weight) *)
Evidence(type, severity, weight) == [type |-> type, severity |-> severity, weight |-> weight]

(* _check_orphan_status without the branch for a file that imports nothing. *)
CheckOrphanStatusOneBranch(f) ==
  IF f.importers = 0 THEN <<Evidence("orphan", "major", 60)>>
  ELSE IF f.importers = 1 THEN <<Evidence("low_usage", "minor", 20)>>
  ELSE <<>>

(* _check_orphan_status *)
CheckOrphanStatus(f) ==
  IF f.importers = 0 /\ f.imports = 0 THEN <<Evidence("orphan", "critical", 80)>>
  ELSE IF f.importers = 0 /\ f.imports > 0 THEN <<Evidence("orphan", "major", 60)>>
  ELSE IF f.importers = 1 THEN <<Evidence("low_usage", "minor", 20)>>
  ELSE <<>>

(* _check_duplicate_content *)
CheckDuplicateContent(f) ==
  IF ~f.content THEN <<>>
  ELSE (IF f.duplicates THEN <<Evidence("duplicate", "critical", 90)>> ELSE <<>>)
       \o (IF f.near_duplicate THEN <<Evidence("near_duplicate", "major", 70)>> ELSE <<>>)

(* _check_obsolete_naming *)
CheckObsoleteNaming(path) ==
  IF MatchesObsoletePattern(Lower(path))
  THEN <<Evidence("obsolete_name", "major", 70)>> ELSE <<>>

(* _check_abandonment_markers *)
CheckAbandonmentMarkers(f) ==
  IF f.content /\ f.abandonment_markers > 0
  THEN <<Evidence("abandonment_markers", "major", 60)>> ELSE <<>>

(* _check_incomplete_implementation: ratio > 0.1 is 10 * count > lines *)
CheckIncompleteImplementation(f) ==
  IF ~f.content THEN <<>>
  ELSE IF f.code_lines > 0 /\ f.incomplete_count > 0
  THEN IF 10 * f.incomplete_count > f.code_lines THEN <<Evidence("incomplete", "major", 50)>>
       ELSE IF f.incomplete_count > 5 THEN <<Evidence("incomplete", "minor", 20)>>
       ELSE <<>>
  ELSE <<>>

(* _check_dead_code *)
CheckDeadCode(path, f) ==
  IF ~f.content THEN <<>>
  ELSE (IF Lower(Suffix(path)) = ".py" /\ f.unused_funcs > 3
        THEN <<Evidence("dead_code", "minor", 30)>> ELSE <<>>)
       \o (IF f.commented_code_count > 5
           THEN <<Evidence("commented_code", "minor", 25)>> ELSE <<>>)

(* _check_size_anomalies: content is falsy for an unreadable file and for  *)
(* the empty string; the elif branch for 0 lines is behind lines < 5.      *)
CheckSizeAnomalies(f) ==
  IF ~f.content THEN <<>>
  ELSE IF f.lines < 5 THEN <<Evidence("tiny_file", "minor", 30)>>
  ELSE IF f.lines = 0 THEN <<Evidence("empty_file", "critical", 90)>>
  ELSE <<>>

(* _check_staleness *)
CheckStaleness(f) ==
  IF f.content /\ f.old_years > 3 THEN <<Evidence("stale_dates", "info", 15)>> ELSE <<>>

(* _check_location_anomalies, for a file at the repository root: its       *)
(* parent is "." and it has one path part.                                 *)
CheckLocationAnomalies(path) ==
  IF Contains(Lower(path), "test") /\ ~Contains(".", "test")
  THEN <<Evidence("misplaced", "minor", 20)>> ELSE <<>>

(* build_case; confidence in thousandths *)
BuildCase(path, f) ==
  LET ev == CheckOrphanStatus(f) \o CheckDuplicateContent(f) \o CheckObsoleteNaming(path)
            \o CheckAbandonmentMarkers(f) \o CheckIncompleteImplementation(f)
            \o CheckDeadCode(path, f) \o CheckSizeAnomalies(f) \o CheckStaleness(f)
            \o CheckLocationAnomalies(path)
      prosecution_score == CalculateScore(ev)
  IN [file_path |-> path,
      evidence |-> ev,
      prosecution_score |-> prosecution_score,
      recommended_action |-> IF prosecution_score >= 700 THEN "quarantine"
                             ELSE IF prosecution_score >= 500 THEN "review" ELSE "keep",
      verdict |-> IF prosecution_score >= 700 THEN "QUARANTINE"
                  ELSE IF prosecution_score >= 500 THEN "REVIEW_NEEDED" ELSE "KEEP",
      confidence |-> IF prosecution_score >= 700 THEN Min(950, prosecution_score)
                     ELSE IF prosecution_score >= 500 THEN prosecution_score
                     ELSE Max(300, prosecution_score)]

(* ProsecutionCase.to_dict *)
ProsecutionToDict(case) ==
  [file_path |-> case.file_path,
   verdict |-> case.verdict,
   confidence |-> case.confidence,
   evidence |-> [i \in DOMAIN case.evidence |->
                   [type |-> case.evidence[i].type,
                    severity |-> case.evidence[i].severity,
                    weight |-> case.evidence[i].weight]],
   prosecution_score |-> case.prosecution_score,
   recommended_action |-> case.recommended_action]

(* ----------------------------- DefenseAgent ---------------------------- *)
(* DefenseEvidence(category, strength) *)
DefenseEvidence(category, strength) == [category |-> category, strength |-> strength]

(* _analyze_importers *)
AnalyzeImporters(f) ==
  IF f.def_importers > 0
  THEN <<DefenseEvidence("IMPORT_DEPENDENCY", Min(100, f.def_importers * 30))>>
       \o (IF f.entry_point_importers
           THEN <<DefenseEvidence("ENTRY_POINT_DEPENDENCY", 90)>> ELSE <<>>)
  ELSE <<>>

(* _analyze_references *)
AnalyzeReferences(f) ==
  (IF f.references > 0
   THEN <<DefenseEvidence("FILE_REFERENCE", Min(80, f.references * 20))>> ELSE <<>>)
  \o (IF f.references > 0 /\ f.doc_references
      THEN <<DefenseEvidence("DOCUMENTED", 60)>> ELSE <<>>)

(* _analyze_config_role *)
ConfigIndicators ==
  {"config", "settings", "env", "rc", "options", "package.json", "tsconfig", "webpack",
   "babel", "docker", "yaml", "yml", "toml", "ini"}

AnalyzeConfigRole(path, f) ==
  (IF \E ind \in ConfigIndicators : Contains(Lower(path), ind)
   THEN <<DefenseEvidence("CONFIGURATION_FILE", 85)>> ELSE <<>>)
  \o (IF f.content /\ f.config_content
      THEN <<DefenseEvidence("CONFIG_CONTENT", 70)>> ELSE <<>>)

(* _analyze_entry_point *)
EntryIndicators ==
  {"main", "index", "app", "server", "entry", "__init__", "__main__", "cli", "run"}

AnalyzeEntryPoint(path, f) ==
  (IF \E ind \in EntryIndicators : Contains(Lower(path), ind)
   THEN <<DefenseEvidence("ENTRY_POINT", 90)>> ELSE <<>>)
  \o (IF f.content /\ f.executable
      THEN <<DefenseEvidence("EXECUTABLE", 85)>> ELSE <<>>)

(* _analyze_documentation_value; word_count / 1000 in hundredths *)
AnalyzeDocumentationValue(path, f) ==
  IF Lower(Suffix(path)) \in {".md", ".rst", ".txt"} /\ f.content
  THEN (IF f.word_count > 100
        THEN <<DefenseEvidence("DOCUMENTATION", Min(80, f.word_count \div 10))>> ELSE <<>>)
       \o (IF Contains(Lower(path), "readme")
           THEN <<DefenseEvidence("README", 95)>> ELSE <<>>)
       \o (IF Contains(Lower(path), "changelog")
           THEN <<DefenseEvidence("CHANGELOG", 85)>> ELSE <<>>)
  ELSE <<>>

(* _analyze_git_activity; git = FALSE when the subprocess call raises.     *)
(* commit_count / 20 in hundredths is 5 * commit_count.                    *)
AnalyzeGitActivity(f) ==
  IF ~f.git THEN <<>>
  ELSE (IF f.commit_count > 5
        THEN <<DefenseEvidence("ACTIVE_DEVELOPMENT", Min(80, 5 * f.commit_count))>> ELSE <<>>)
       \o (IF f.commit_count > 0
           THEN <<DefenseEvidence("RECENT_ACTIVITY", 50)>> ELSE <<>>)
       \o (IF f.contributors > 1
           THEN <<DefenseEvidence("TEAM_OWNERSHIP", Min(70, f.contributors * 20))>> ELSE <<>>)

(* _analyze_naming_importance *)
ImportantNames ==
  {"auth", "security", "api", "gateway", "core", "base", "util", "helper", "model",
   "schema", "test", "spec"}

AnalyzeNamingImportance(path) ==
  IF \E indicator \in ImportantNames : Contains(Lower(path), indicator)
  THEN <<DefenseEvidence("IMPORTANT_NAME", 60)>> ELSE <<>>

(* _analyze_content_quality; lines / 200, comment_lines / 50 and           *)
(* count / 15 in hundredths, exact for the values facts takes.             *)
AnalyzeContentQuality(f) ==
  IF ~f.content THEN <<>>
  ELSE (IF f.lines > 50
        THEN <<DefenseEvidence("SUBSTANTIAL_CODE", Min(70, f.lines \div 2))>> ELSE <<>>)
       \o (IF f.comment_lines > 10
           THEN <<DefenseEvidence("WELL_DOCUMENTED", Min(60, 2 * f.comment_lines))>> ELSE <<>>)
       \o (IF f.class_func_count > 3
           THEN <<DefenseEvidence("STRUCTURED_CODE", Min(75, (100 * f.class_func_count) \div 15))>>
           ELSE <<>>)

(* _analyze_integration_points: one item per matching pattern *)
AnalyzeIntegrationPoints(f) ==
  IF ~f.content THEN <<>>
  ELSE [i \in 1..f.integrations |-> DefenseEvidence("INTEGRATION", 75)]

(* _analyze_future_value *)
AnalyzeFutureValue(path, f) ==
  (IF Contains(Lower(path), "template") \/ Contains(Lower(path), "example")
   THEN <<DefenseEvidence("TEMPLATE", 65)>> ELSE <<>>)
  \o (IF Contains(Lower(path), "test") \/ Contains(Lower(path), "spec")
      THEN <<DefenseEvidence("TEST_FILE", 80)>> ELSE <<>>)
  \o (IF f.content /\ f.todos > 0
      THEN <<DefenseEvidence("PLANNED_WORK", 40)>> ELSE <<>>)

RECURSIVE TotalStrength(_)
TotalStrength(ev) == IF ev = <<>> THEN 0 ELSE Head(ev).strength + TotalStrength(Tail(ev))

DefenseCriticalCategories ==
  {"IMPORT_DEPENDENCY", "ENTRY_POINT_DEPENDENCY", "ENTRY_POINT", "README",
   "CONFIGURATION_FILE", "TEST_FILE"}

(* _calculate_verdict with the divisors of ESSENTIAL and USEFUL swapped. *)
CalculateVerdictSwapped(ev) ==
  LET total_strength == TotalStrength(ev)
      has_critical == \E i \in DOMAIN ev : ev[i].category \in DefenseCriticalCategories
  IN IF ev = <<>> THEN [verdict |-> "MARGINAL", confidence |-> Conf(30, 1)]
     ELSE IF has_critical \/ total_strength > 300
     THEN [verdict |-> "ESSENTIAL", confidence |-> Conf(Min(95 * 2, total_strength), 2)]
     ELSE IF total_strength > 200
     THEN [verdict |-> "IMPORTANT", confidence |-> Conf(Min(85 * 3, total_strength), 3)]
     ELSE IF total_strength > 100
     THEN [verdict |-> "USEFUL", confidence |-> Conf(Min(70 * 4, total_strength), 4)]
     ELSE [verdict |-> "MARGINAL", confidence |-> Conf(Max(30, total_strength), 1)]

(* _calculate_verdict: the confidence total_strength / k is kept as the    *)
(* fraction of hundredths over k.                                          *)
CalculateVerdict(ev) ==
  LET total_strength == TotalStrength(ev)
      has_critical == \E i \in DOMAIN ev : ev[i].category \in DefenseCriticalCategories
  IN IF ev = <<>> THEN [verdict |-> "MARGINAL", confidence |-> Conf(30, 1)]
     ELSE IF has_critical \/ total_strength > 300
     THEN [verdict |-> "ESSENTIAL", confidence |-> Conf(Min(95 * 4, total_strength), 4)]
     ELSE IF total_strength > 200
     THEN [verdict |-> "IMPORTANT", confidence |-> Conf(Min(85 * 3, total_strength), 3)]
     ELSE IF total_strength > 100
     THEN [verdict |-> "USEFUL", confidence |-> Conf(Min(70 * 2, total_strength), 2)]
     ELSE [verdict |-> "MARGINAL", confidence |-> Conf(Max(30, total_strength), 1)]

(* defend; import_chain and referenced_by are kept as their lengths *)
Defend(path, f) ==
  LET ev == AnalyzeImporters(f) \o AnalyzeReferences(f) \o AnalyzeConfigRole(path, f)
            \o AnalyzeEntryPoint(path, f) \o AnalyzeDocumentationValue(path, f)
            \o AnalyzeGitActivity(f) \o AnalyzeNamingImportance(path)
            \o AnalyzeContentQuality(f) \o AnalyzeIntegrationPoints(f)
            \o AnalyzeFutureValue(path, f)
      calculated == CalculateVerdict(ev)
  IN [file_path |-> path,
      verdict |-> calculated.verdict,
      confidence |-> calculated.confidence,
      evidence |-> ev,
      import_chain |-> Min(20, f.import_chain),
      referenced_by |-> f.references]

(* DefenseCase.to_dict *)
DefenseToDict(case) ==
  [file_path |-> case.file_path,
   verdict |-> case.verdict,
   confidence |-> case.confidence,
   evidence |-> [i \in DOMAIN case.evidence |->
                   [category |-> case.evidence[i].category,
                    strength |-> case.evidence[i].strength]],
   import_chain |-> case.import_chain,
   referenced_by |-> case.referenced_by]

(* ------------------------------ FileCourt ------------------------------ *)
(* The measurements the checks take of a file. With no finding the file   *)
(* has content of 20 lines and 20 words and three files import it.         *)
(* One finding each: the measurement it changes. *)
Findings ==
  {"unreadable", "empty", "blank", "no_importers", "one_importer", "imports", "duplicate",
   "near_duplicate",
   "abandonment", "incomplete", "many_markers", "unused_funcs", "commented_code", "tiny",
   "old_years", "def_importers", "entry_point_importers", "references", "doc_references",
   "config_content", "executable", "words", "commits", "team", "long", "comments",
   "structured", "integration", "todos", "import_chain"}

FactsOf(found) ==
  [readable |-> "unreadable" \notin found,
   content |-> "unreadable" \notin found /\ "empty" \notin found,
   importers |-> IF "no_importers" \in found THEN 0
                 ELSE IF "one_importer" \in found THEN 1 ELSE 3,
   imports |-> IF "imports" \in found THEN 2 ELSE 0,
   duplicates |-> "duplicate" \in found,
   near_duplicate |-> "near_duplicate" \in found,
   abandonment_markers |-> IF "abandonment" \in found THEN 1 ELSE 0,
   incomplete_count |-> IF "incomplete" \in found THEN 3
                        ELSE IF "many_markers" \in found THEN 6 ELSE 0,
   code_lines |-> IF "many_markers" \in found /\ "incomplete" \notin found THEN 100 ELSE 20,
   unused_funcs |-> IF "unused_funcs" \in found THEN 4 ELSE 0,
   commented_code_count |-> IF "commented_code" \in found THEN 6 ELSE 0,
   lines |-> IF "empty" \in found \/ "blank" \in found THEN 0
             ELSE IF "tiny" \in found THEN 3 ELSE IF "long" \in found THEN 60 ELSE 20,
   old_years |-> IF "old_years" \in found THEN 4 ELSE 0,
   def_importers |-> IF "def_importers" \in found \/ "entry_point_importers" \in found
                     THEN 2 ELSE 0,
   entry_point_importers |-> "entry_point_importers" \in found,
   references |-> IF "references" \in found \/ "doc_references" \in found THEN 3 ELSE 0,
   doc_references |-> "doc_references" \in found,
   config_content |-> "config_content" \in found,
   executable |-> "executable" \in found,
   word_count |-> IF "words" \in found THEN 150 ELSE 20,
   git |-> "commits" \in found \/ "team" \in found,
   commit_count |-> IF "commits" \in found THEN 10 ELSE IF "team" \in found THEN 2 ELSE 0,
   contributors |-> IF "team" \in found THEN 2
                    ELSE IF "commits" \in found THEN 1 ELSE 0,
   comment_lines |-> IF "comments" \in found THEN 20 ELSE 0,
   class_func_count |-> IF "structured" \in found THEN 6 ELSE 0,
   integrations |-> IF "integration" \in found THEN 1 ELSE 0,
   todos |-> IF "todos" \in found THEN 1 ELSE 0,
   import_chain |-> IF "import_chain" \in found THEN 2 ELSE 0]

(* The subsets of S with at most n elements. *)
RECURSIVE SubsetsUpTo(_, _)
SubsetsUpTo(S, n) ==
  IF n = 0 THEN {{}}
  ELSE LET P == SubsetsUpTo(S, n - 1) IN P \cup {p \cup {x} : p \in P, x \in S}

(* What the scans find in any case: nothing, or what they find about a     *)
(* one-line text file of 150 words that three files mention and none       *)
(* imports.                                                                *)
ScenarioFindings == {{}, {"no_importers", "tiny", "references", "words"}}

(* FileCourt(repo_root, conservative) over a repository in which the       *)
(* scans make at most MaxFindings further findings about the file.         *)
CourtInit ==
  /\ QInit
  /\ GIdle
  /\ NIdle
  /\ file_path \in FileNames
  /\ \E base \in ScenarioFindings : \E found \in SubsetsUpTo(Findings, MaxFindings) :
       facts = FactsOf(base \cup found)
  /\ conservative_mode \in BOOLEAN
  /\ prosecution_case = <<>>
  /\ defense_case = <<>>
  /\ verdict = <<>>
  /\ suspects = <<>>
  /\ evidence = <<>>
  /\ score = <<>>
  /\ cpc = "court"

(* identify_suspects(threshold), threshold in thousandths *)
IdentifySuspects(threshold) ==
  /\ cpc = "court"
  /\ LET case == BuildCase(file_path, facts)
     IN suspects' = [threshold |-> threshold,
                     files |-> IF case.confidence >= threshold THEN <<file_path>> ELSE <<>>]
  /\ cpc' = "screened"
  /\ UNCHANGED <<file_path, facts, conservative_mode, prosecution_case, defense_case,
                 verdict, evidence, score>>
  /\ UNCHANGED <<qvars, gvars, nvars>>

(* run_trial(file_path) *)
RunTrial ==
  /\ cpc \in {"court", "screened"}
  /\ prosecution_case' = BuildCase(file_path, facts)
  /\ defense_case' = Defend(file_path, facts)
  /\ verdict' = Judge(file_path, ProsecutionToDict(prosecution_case'),
                      DefenseToDict(defense_case'), conservative_mode)
  /\ cpc' = "tried"
  /\ UNCHANGED <<file_path, facts, conservative_mode, suspects, evidence, score>>
  /\ UNCHANGED <<qvars, gvars, nvars>>

Thresholds == {500, 900}

CourtNext ==
  \/ \E threshold \in Thresholds : IdentifySuspects(threshold)
  \/ RunTrial

SpecCourt == CourtInit /\ [][CourtNext]_vars

(* --------------------------- the two scenarios -------------------------- *)
(* A file with no imports and no importers whose name matches an obsolete  *)
(* pattern.                                                                *)
ObsoleteOrphan ==
  /\ facts.importers = 0
  /\ facts.imports = 0
  /\ MatchesObsoletePattern(Lower(file_path))

HasEvidence(case, type, severity, weight) ==
  \E i \in DOMAIN case.evidence : case.evidence[i] = Evidence(type, severity, weight)

(* C13: for a file with no imports and no importers whose name matches an  *)
(* obsolete pattern, the Prosecutor's evidence contains orphan (critical,  *)
(* 0.8) and obsolete_name (major, 0.7), its score is at least 70 with      *)
(* verdict QUARANTINE, and identify_suspects(0.5) lists the file.          *)
C13_ObsoleteOrphanIsSuspect ==
  ObsoleteOrphan =>
    /\ cpc = "tried" =>
          /\ HasEvidence(prosecution_case, "orphan", "critical", 80)
          /\ HasEvidence(prosecution_case, "obsolete_name", "major", 70)
          /\ prosecution_case.prosecution_score >= 700
          /\ prosecution_case.verdict = "QUARANTINE"
    /\ (suspects # <<>> /\ suspects.threshold = 500) => suspects.files = <<file_path>>

C13_Witness ==
  /\ cpc = "tried"
  /\ file_path = "legacy_util_old.py"
  /\ ObsoleteOrphan
  /\ prosecution_case.evidence
       = <<Evidence("orphan", "critical", 80), Evidence("obsolete_name", "major", 70)>>
  /\ prosecution_case.prosecution_score = 900
  /\ suspects # <<>>
  /\ suspects.threshold = 500
  /\ suspects.files = <<"legacy_util_old.py">>

(* The trial of legacy_util_old.py whose prosecution evidence is orphan    *)
(* 0.8 plus obsolete_name 0.7, in conservative mode.                       *)
LegacyScenario ==
  /\ cpc = "tried"
  /\ file_path = "legacy_util_old.py"
  /\ conservative_mode
  /\ prosecution_case.evidence
       = <<Evidence("orphan", "critical", 80), Evidence("obsolete_name", "major", 70)>>

(* C14: in the legacy_util_old.py scenario the Judge treats the file as    *)
(* not high-risk and the trial ends with decision QUARANTINE.              *)
C14_LegacyTrialQuarantine ==
  LegacyScenario => ~IsHighRisk(file_path) /\ verdict.decision = "QUARANTINE"

(* C19: in a trial the Judge's prosecution score is the weighted sum of    *)
(* the evidence the Prosecutor produced (x1.5 for critical categories,     *)
(* x1.2 from three categories on), so a case with a positive-weight item   *)
(* gets a strictly positive prosecution weight.                            *)
ProsecutorEvidenceAsJudgeReadsIt ==
  [evidence |-> [i \in DOMAIN prosecution_case.evidence |->
                   [category |-> prosecution_case.evidence[i].type,
                    strength |-> prosecution_case.evidence[i].weight]]]

C19_ProsecutionScoreFromEvidence ==
  cpc = "tried" =>
    /\ CalculateProsecutionScore(ProsecutionToDict(prosecution_case))
         = CalculateProsecutionScore(ProsecutorEvidenceAsJudgeReadsIt)
    /\ (\E i \in DOMAIN prosecution_case.evidence : prosecution_case.evidence[i].weight > 0)
         => verdict.reasoning.prosecution_weight > 0

(* README.md of 150 words that three other files reference, with no other *)
(* retention signal.                                                       *)
ReadmeScenario ==
  /\ cpc = "tried"
  /\ file_path = "README.md"
  /\ facts.content
  /\ facts.word_count = 150
  /\ facts.references = 3
  /\ facts.def_importers = 0
  /\ ~facts.config_content
  /\ ~facts.executable
  /\ ~facts.git
  /\ facts.lines <= 50
  /\ facts.comment_lines <= 10
  /\ facts.class_func_count <= 3
  /\ facts.integrations = 0
  /\ facts.todos = 0

(* C15 as stated: in the README.md scenario defend returns ESSENTIAL or    *)
(* IMPORTANT with confidence above 0.7 and the conservative-mode Judge     *)
(* decision is KEEP.                                                       *)
C15_ReadmeConfident ==
  ReadmeScenario =>
    /\ defense_case.verdict \in {"ESSENTIAL", "IMPORTANT"}
    /\ defense_case.confidence.h > 70 * defense_case.confidence.den
    /\ conservative_mode => verdict.decision = "KEEP"

(* C15, amended: in the README.md scenario defend returns ESSENTIAL with   *)
(* confidence total strength / 4, which is 0.425 (0.575 when a             *)
(* documentation file is among the three), below 0.7, and the              *)
(* conservative-mode Judge decision is KEEP.                               *)
C15_ReadmeEssential ==
  ReadmeScenario =>
    /\ defense_case.verdict = "ESSENTIAL"
    /\ defense_case.confidence.den = 4
    /\ defense_case.confidence.h = IF facts.doc_references THEN 230 ELSE 170
    /\ defense_case.confidence.h < 70 * defense_case.confidence.den
    /\ conservative_mode => verdict.decision = "KEEP"

C15_Witness ==
  /\ ReadmeScenario
  /\ conservative_mode
  /\ ~facts.doc_references
  /\ facts.importers = 0
  /\ defense_case.evidence = <<DefenseEvidence("FILE_REFERENCE", 60),
                               DefenseEvidence("DOCUMENTATION", 15),
                               DefenseEvidence("README", 95)>>
  /\ defense_case.verdict = "ESSENTIAL"
  /\ verdict.decision = "KEEP"

(* =============== Part IV: find_circular_dependencies ================== *)
(* DependencyGraphBuilder.find_circular_dependencies (dependency_graph.py) *)
(* step by step: one action per iteration of a for loop. The iteration     *)
(* order of a set, and of the dict's keys, is any order.                   *)
CycleNodes == 1..NumCycleNodes

(* The argument of a call: any dict from files to sets of files with at    *)
(* most MaxCycleEdges edges; cycles = [], visited = set(),                 *)
(* rec_stack = set().                                                      *)
CycleInit ==
  /\ QInit
  /\ CIdle
  /\ AIdle
  /\ MIdle
  /\ TIdle
  /\ PIdle
  /\ \E keys \in SUBSET CycleNodes :
       \E edges \in SUBSET (keys \X CycleNodes) :
         /\ Cardinality(edges) <= MaxCycleEdges
         /\ forward_graph = [n \in keys |-> {m \in CycleNodes : <<n, m>> \in edges}]
  /\ entry_points = {}
  /\ queue = <<>>
  /\ orphaned = {}
  /\ visited = {}
  /\ rec_stack = {}
  /\ dfs_path = <<>>
  /\ cycles = <<>>
  /\ frames = <<>>
  /\ pc = "dfs"

(* path.index(x): the first position of x *)
Index(seq, x) == CHOOSE i \in 1..Len(seq) : seq[i] = x /\ \A j \in 1..(i - 1) : seq[j] # x

Top == frames[Len(frames)]

(* The first three statements of dfs(node, path). *)
Enter(node, p) ==
  /\ visited' = visited \cup {node}
  /\ rec_stack' = rec_stack \cup {node}
  /\ dfs_path' = Append(p, node)

(* for node in forward_graph: if node not in visited: dfs(node, []) *)
DfsCall(node) ==
  /\ pc = "dfs"
  /\ frames = <<>>
  /\ node \in DOMAIN forward_graph
  /\ node \notin visited
  /\ Enter(node, <<>>)
  /\ frames' = <<[node |-> node, todo |-> Get(forward_graph, node)]>>
  /\ UNCHANGED <<forward_graph, entry_points, queue, orphaned, pc, cycles>>
  /\ UNCHANGED <<qvars, cvars, avars, mvars, tvars, pvars>>

(* if neighbor not in visited: dfs(neighbor, path) *)
DfsDescend(neighbor) ==
  /\ pc = "dfs"
  /\ frames # <<>>
  /\ neighbor \in Top.todo
  /\ neighbor \notin visited
  /\ Enter(neighbor, dfs_path)
  /\ frames' = [frames EXCEPT ![Len(frames)].todo = @ \ {neighbor}]
                 \o <<[node |-> neighbor, todo |-> Get(forward_graph, neighbor)]>>
  /\ UNCHANGED <<forward_graph, entry_points, queue, orphaned, pc, cycles>>
  /\ UNCHANGED <<qvars, cvars, avars, mvars, tvars, pvars>>

(* elif neighbor in rec_stack: the cycle is recorded and dfs returns False *)
(* at once, before path.pop() and rec_stack.remove(node).                  *)
DfsCycle(neighbor) ==
  /\ pc = "dfs"
  /\ frames # <<>>
  /\ neighbor \in Top.todo
  /\ neighbor \in visited
  /\ neighbor \in rec_stack
  /\ neighbor \in Range(dfs_path)
  /\ cycles' = Append(cycles, SubSeq(dfs_path, Index(dfs_path, neighbor), Len(dfs_path)) \o <<neighbor>>)
  /\ frames' = SubSeq(frames, 1, Len(frames) - 1)
  /\ UNCHANGED <<forward_graph, entry_points, queue, orphaned, pc, visited, rec_stack, dfs_path>>
  /\ UNCHANGED <<qvars, cvars, avars, mvars, tvars, pvars>>

(* elif neighbor in rec_stack, and path.index(neighbor) raises ValueError: *)
(* the call of find_circular_dependencies ends with the exception.         *)
DfsRaise(neighbor) ==
  /\ pc = "dfs"
  /\ frames # <<>>
  /\ neighbor \in Top.todo
  /\ neighbor \in visited
  /\ neighbor \in rec_stack
  /\ neighbor \notin Range(dfs_path)
  /\ frames' = <<>>
  /\ pc' = "raised"
  /\ UNCHANGED <<forward_graph, entry_points, queue, orphaned, visited, rec_stack, dfs_path,
                 cycles>>
  /\ UNCHANGED <<qvars, cvars, avars, mvars, tvars, pvars>>

(* The neighbour is visited and not in rec_stack: the next iteration. *)
DfsSkip(neighbor) ==
  /\ pc = "dfs"
  /\ frames # <<>>
  /\ neighbor \in Top.todo
  /\ neighbor \in visited
  /\ neighbor \notin rec_stack
  /\ frames' = [frames EXCEPT ![Len(frames)].todo = @ \ {neighbor}]
  /\ UNCHANGED <<forward_graph, entry_points, queue, orphaned, pc, visited, rec_stack, dfs_path,
                 cycles>>
  /\ UNCHANGED <<qvars, cvars, avars, mvars, tvars, pvars>>

(* The for loop is over: path.pop(); rec_stack.remove(node); return False *)
DfsReturn ==
  /\ pc = "dfs"
  /\ frames # <<>>
  /\ Top.todo = {}
  /\ dfs_path' = SubSeq(dfs_path, 1, Len(dfs_path) - 1)
  /\ rec_stack' = rec_stack \ {Top.node}
  /\ frames' = SubSeq(frames, 1, Len(frames) - 1)
  /\ UNCHANGED <<forward_graph, entry_points, queue, orphaned, pc, visited, cycles>>
  /\ UNCHANGED <<qvars, cvars, avars, mvars, tvars, pvars>>

(* Every key is visited: return cycles *)
CyclesReturn ==
  /\ pc = "dfs"
  /\ frames = <<>>
  /\ DOMAIN forward_graph \subseteq visited
  /\ pc' = "returned"
  /\ UNCHANGED <<forward_graph, entry_points, queue, orphaned, visited, rec_stack, dfs_path,
                 cycles, frames>>
  /\ UNCHANGED <<qvars, cvars, avars, mvars, tvars, pvars>>

CycleNext ==
  \/ \E node \in CycleNodes : DfsCall(node)
  \/ \E neighbor \in CycleNodes :
       \/ DfsDescend(neighbor)
       \/ DfsCycle(neighbor)
       \/ DfsRaise(neighbor)
       \/ DfsSkip(neighbor)
  \/ DfsReturn
  \/ CyclesReturn

SpecCycles == CycleInit /\ [][CycleNext]_vars

(* A list that begins and ends with the same node and whose consecutive    *)
(* pairs are edges of the graph.                                           *)
IsDirectedCycle(graph, c) ==
  /\ Len(c) >= 2
  /\ c[1] = c[Len(c)]
  /\ \A i \in 1..(Len(c) - 1) : c[i + 1] \in Get(graph, c[i])

(* C20: every list returned by find_circular_dependencies is a genuine     *)
(* directed cycle of the forward graph.                                    *)
C20_ReturnedCyclesAreCycles ==
  pc = "returned" => \A i \in DOMAIN cycles : IsDirectedCycle(forward_graph, cycles[i])

(* ===================== Part V: analysis runs ========================== *)
(* RepositoryAnalyzer.run_analysis with its DependencyGraphBuilder         *)
(* (dependency_graph.py) and SemanticAnalyzer (semantic_analyzer.py).      *)
(* A file is [parts, deps, word_freq, readable]: the parts of its relative *)
(* path, the names its imports mention, its Counter of words as the        *)
(* sequence of [word, freq] in insertion order, and whether open() works.  *)

NoDict == [x \in {} |-> 0]

RECURSIVE Join(_, _)
Join(parts, sep) ==
  IF Len(parts) = 0 THEN ""
  ELSE IF Len(parts) = 1 THEN parts[1]
  ELSE parts[1] \o sep \o Join(Tail(parts), sep)

RECURSIVE Pow(_, _)
Pow(b, e) == IF e = 0 THEN 1 ELSE b * Pow(b, e - 1)

(* str(file_path.relative_to(repo_path)), file_path.name *)
RelPath(file) == Join(file.parts, "/")
Name(file) == file.parts[Len(file.parts)]

(* module_parts = list(rel_path.parts[:-1]) + [file_path.stem] *)
ModuleParts(file) ==
  SubSeq(file.parts, 1, Len(file.parts) - 1) \o <<Stem(Name(file))>>

(* The loop over range(len(module_parts)): a partial module path is        *)
(* entered only if the index has no such key.                              *)
RECURSIVE IndexPartials(_, _, _, _)
IndexPartials(module_index, module_parts, i, rel) ==
  IF i > Len(module_parts) THEN module_index
  ELSE LET partial == Join(SubSeq(module_parts, i, Len(module_parts)), ".")
       IN IndexPartials(IF partial \in DOMAIN module_index THEN module_index
                        ELSE Put(module_index, partial, rel),
                        module_parts, i + 1, rel)

(* _build_file_index(files) on the builder b *)
RECURSIVE BuildFileIndex(_, _)
BuildFileIndex(b, files) ==
  IF files = <<>> THEN b
  ELSE LET file == Head(files)
           rel == RelPath(file)
           file_index == Put(Put(b.file_index, Name(file), rel), Stem(Name(file)), rel)
           module_index ==
             IF Suffix(Name(file)) = ".py"
             THEN IndexPartials(Put(b.module_index, Join(ModuleParts(file), "."), rel),
                                ModuleParts(file), 1, rel)
             ELSE b.module_index
       IN BuildFileIndex([file_index |-> file_index, module_index |-> module_index],
                         Tail(files))

ResolveExtensions == <<".py", ".js", ".ts", ".json", ".yaml", ".yml", ".md">>

(* _resolve_single_dep for a name that is neither relative nor a path;     *)
(* None when nothing matches.                                              *)
ResolveSingleDep(b, dep) ==
  IF dep \in DOMAIN b.module_index THEN b.module_index[dep]
  ELSE IF dep \in DOMAIN b.file_index THEN b.file_index[dep]
  ELSE LET hits == {i \in DOMAIN ResolveExtensions :
                      (dep \o ResolveExtensions[i]) \in DOMAIN b.file_index}
       IN IF hits = {} THEN None
          ELSE b.file_index[dep \o ResolveExtensions[CHOOSE i \in hits : \A j \in hits : i <= j]]

(* _resolve_dependencies without the test against the source file. *)
ResolveDependenciesWithSelf(b, file) ==
  {ResolveSingleDep(b, dep) : dep \in file.deps} \ {None}

(* _resolve_dependencies *)
ResolveDependencies(b, file) ==
  {ResolveSingleDep(b, dep) : dep \in file.deps} \ {None, RelPath(file)}

(* The import statements that count: those of a file build_graph parses. *)
ParsedSuffixes ==
  {".py", ".js", ".jsx", ".ts", ".tsx", ".mjs", ".json", ".yaml", ".yml", ".md"}

(* reverse_graph[dep].add(rel) for every dep of deps *)
AddReverse(reverse, deps, rel) ==
  [dep \in (DOMAIN reverse) \cup deps |->
     IF dep \in deps THEN Get(reverse, dep) \cup {rel} ELSE reverse[dep]]

(* The loop of build_graph over files, after _build_file_index: a file     *)
(* whose open() raises gets forward_graph[rel_path] = set() in the except  *)
(* branch; [forward, reverse] is returned.                                 *)
RECURSIVE BuildGraphLoop(_, _, _)
BuildGraphLoop(b, files, graphs) ==
  IF files = <<>> THEN graphs
  ELSE LET file == Head(files)
           rel == RelPath(file)
           parsed == Lower(Suffix(Name(file))) \in ParsedSuffixes
           resolved_deps == IF parsed THEN ResolveDependencies(b, file) ELSE {}
       IN IF parsed /\ ~file.readable
          THEN BuildGraphLoop(b, Tail(files),
                              [graphs EXCEPT !.forward = Put(@, rel, {})])
          ELSE BuildGraphLoop(b, Tail(files),
                              [forward |-> Put(graphs.forward, rel, resolved_deps),
                               reverse |-> AddReverse(graphs.reverse, resolved_deps, rel)])

(* build_graph(files) after _build_file_index: [forward, reverse] *)
GraphOf(b, files) == BuildGraphLoop(b, files, [forward |-> NoDict, reverse |-> NoDict])

(* Counter lookup: 0 for a missing key *)
Count(counter, word) == IF word \in DOMAIN counter THEN counter[word] ELSE 0

(* _analyze_file for every file in turn: the semantics object is replaced, *)
(* document_freq[word] += 1 for every word of the file; a file whose       *)
(* open() raises keeps the empty semantics.                                *)
RECURSIVE AddDocumentFreq(_, _)
AddDocumentFreq(document_freq, word_freq) ==
  IF word_freq = <<>> THEN document_freq
  ELSE AddDocumentFreq(Put(document_freq, Head(word_freq).word,
                           Count(document_freq, Head(word_freq).word) + 1),
                       Tail(word_freq))

RECURSIVE AnalyzeFiles(_, _)
AnalyzeFiles(an, files) ==
  IF files = <<>> THEN an
  ELSE LET word_freq == IF Head(files).readable THEN Head(files).word_freq ELSE <<>>
       IN AnalyzeFiles([an EXCEPT
                          !.file_semantics = Put(@, RelPath(Head(files)), word_freq),
                          !.document_freq = AddDocumentFreq(@, word_freq)],
                       Tail(files))

(* tf * idf of item a is greater than that of item b of the same file:     *)
(* freq/total * log((N+1)/(df+1)) compared exactly, as                     *)
(* ((N+1)/(df_a+1))^freq_a > ((N+1)/(df_b+1))^freq_b.                      *)
TfidfGreater(an, a, b) ==
  LET n == an.total_docs + 1
      dfa == Count(an.document_freq, a.word) + 1
      dfb == Count(an.document_freq, b.word) + 1
  IN Pow(n, a.freq) * Pow(dfb, b.freq) > Pow(n, b.freq) * Pow(dfa, a.freq)

TopKeywords == 30
ReportedKeywords == 20

(* _calculate_tfidf for one file: sorted(..., reverse=True) is stable, the *)
(* top 30 words are kept.                                                  *)
Keywords(an, word_freq) ==
  LET before(j, i) == \/ TfidfGreater(an, word_freq[j], word_freq[i])
                      \/ /\ ~TfidfGreater(an, word_freq[i], word_freq[j])
                         /\ j < i
      place(i) == 1 + Cardinality({j \in DOMAIN word_freq : before(j, i)})
      sorted == [k \in DOMAIN word_freq |->
                   word_freq[CHOOSE i \in DOMAIN word_freq : place(i) = k].word]
  IN SubSeq(sorted, 1, Min(TopKeywords, Len(sorted)))

(* analyze_all(files): the new state of the analyzer *)
AnalyzeAll(an, files) ==
  LET analyzed == AnalyzeFiles(an, files)
  IN [analyzed EXCEPT !.total_docs = Cardinality(DOMAIN analyzed.file_semantics)]

(* result["file_data"][path]["keywords"] *)
FileData(an) ==
  [rel \in DOMAIN an.file_semantics |->
     LET keywords == Keywords(an, an.file_semantics[rel])
     IN SubSeq(keywords, 1, Min(ReportedKeywords, Len(keywords)))]

(* DependencyGraphBuilder(repo_path), SemanticAnalyzer(repo_path) *)
NewBuilder == [file_index |-> NoDict, module_index |-> NoDict]
NewSemanticAnalyzer == [file_semantics |-> NoDict, document_freq |-> NoDict, total_docs |-> 0]

PathPool == {<<"util.py">>, <<"pkg", "util.py">>, <<"notes.txt">>}
DepPool == {"util", "pkg.util", "notes"}
WordFreqPool ==
  {<<>>,
   <<[word |-> "parser", freq |-> 1]>>,
   <<[word |-> "parser", freq |-> 3], [word |-> "lexer", freq |-> 1]>>,
   <<[word |-> "lexer", freq |-> 1], [word |-> "token", freq |-> 2]>>}

FilePool ==
  {[parts |-> parts, deps |-> deps, word_freq |-> word_freq, readable |-> readable] :
     parts \in PathPool, deps \in {{}} \cup {{d} : d \in DepPool}, word_freq \in WordFreqPool,
     readable \in BOOLEAN}

(* RepositoryAnalyzer(repo_path) over a repository of at most MaxFiles     *)
(* files, in the order discover_files lists them.                          *)
RunsInit ==
  /\ QInit
  /\ GIdle
  /\ CIdle
  /\ DIdle
  /\ MIdle
  /\ TIdle
  /\ PIdle
  /\ \E files \in SeqsUpTo(FilePool, MaxFiles) :
       /\ \A i, j \in DOMAIN files : files[i].parts = files[j].parts => i = j
       /\ all_files = files
  /\ dep_builder = NewBuilder
  /\ semantic_analyzer = NewSemanticAnalyzer
  /\ reports = <<>>

(* run_analysis(): build_graph and analyze_all on the analyzer's own       *)
(* dep_builder and semantic_analyzer, over the unchanged file set.         *)
RunAnalysis ==
  /\ Len(reports) < MaxRuns
  /\ dep_builder # <<>>
  /\ dep_builder' = BuildFileIndex(dep_builder, all_files)
  /\ semantic_analyzer' = AnalyzeAll(semantic_analyzer, all_files)
  /\ reports' = Append(reports, [dep_graph |-> GraphOf(dep_builder', all_files).forward,
                                 reverse_graph |-> GraphOf(dep_builder', all_files).reverse,
                                 keywords |-> FileData(semantic_analyzer')])
  /\ UNCHANGED all_files
  /\ UNCHANGED <<qvars, gvars, cvars, dvars, mvars, tvars, pvars>>

(* A new RepositoryAnalyzer(repo_path) for the same repository. *)
NewAnalyzer ==
  /\ dep_builder # <<>>
  /\ reports # <<>>
  /\ dep_builder' = NewBuilder
  /\ semantic_analyzer' = NewSemanticAnalyzer
  /\ UNCHANGED <<all_files, reports>>
  /\ UNCHANGED <<qvars, gvars, cvars, dvars, mvars, tvars, pvars>>

RunsNext ==
  \/ RunAnalysis
  \/ NewAnalyzer

SpecRuns == RunsInit /\ [][RunsNext]_vars

(* C16: two successive analysis runs over an unchanged file set return     *)
(* the same forward and reverse graphs and the same keyword list for every *)
(* file, also when the builder and the analyzer of the first run are       *)
(* reused.                                                                 *)
C16_RunsAreIdentical ==
  \A i \in 1..(Len(reports) - 1) : reports[i] = reports[i + 1]

(* ===================== Part VI: the command line ====================== *)
(* main() of repository_analyzer.py with the agents package importable     *)
(* (the adversarial branch), run as a user who is not root.                *)

(* What the court says of a file: it is no suspect, or its trial ends with *)
(* one of the four decisions.                                              *)
Outcomes == {"NO_SUSPECT", "KEEP", "REVIEW_NEEDED", "QUARANTINE", "DELETE"}

(* python repository_analyzer.py --repo R [--output O] [-q] [-n]: R does   *)
(* not exist, is a directory of mode 000, or is a directory with at most   *)
(* MaxRepoFiles analyzable files.                                          *)
MainInit ==
  /\ QInit
  /\ GIdle
  /\ CIdle
  /\ DIdle
  /\ AIdle
  /\ TIdle
  /\ PIdle
  /\ args \in [output : BOOLEAN, quarantine : BOOLEAN, dry_run : BOOLEAN]
  /\ repo_path \in {"missing", "unreadable", "ok"}
  /\ verdicts \in SeqsUpTo(Outcomes, MaxRepoFiles)
  /\ repo_path = "missing" => verdicts = <<>>
  /\ created = {}
  /\ exit_status = {}

(* FileCourt._discover_files: os.walk lists nothing below a root that is   *)
(* missing or cannot be read, and reports no error.                        *)
DiscoverFiles == IF repo_path = "ok" THEN DOMAIN verdicts ELSE {}

(* output_dir.mkdir(parents=True, exist_ok=True): the default directory    *)
(* lies below the repository root, which is created when missing; below a  *)
(* root of mode 000 the call raises PermissionError.                       *)
MkdirRaises == ~args.output /\ repo_path = "unreadable"
MkdirCreates ==
  {"output_dir"} \cup (IF ~args.output /\ repo_path = "missing" THEN {"repo_root"} ELSE {})

(* main(): an uncaught exception ends the process with status 1, return 0  *)
(* with status 0.                                                          *)
Main ==
  /\ args # <<>>
  /\ exit_status = {}
  /\ IF MkdirRaises
     THEN /\ exit_status' = {1}
          /\ created' = {}
     ELSE LET found == {i \in DiscoverFiles : verdicts[i] # "NO_SUSPECT"}
              quarantine_files == {i \in found : verdicts[i] \in {"QUARANTINE", "DELETE"}}
          IN /\ created' = MkdirCreates
                  \cup (IF found # {} THEN {"report_md", "report_json"} ELSE {"report_json"})
                  \cup (IF found # {} /\ args.quarantine /\ quarantine_files # {}
                           /\ ~args.dry_run
                        THEN {"quarantine"} ELSE {})
             /\ exit_status' = {0}
  /\ UNCHANGED <<args, repo_path, verdicts>>
  /\ UNCHANGED <<qvars, gvars, cvars, dvars, avars, tvars, pvars>>

MainNext == Main

SpecMain == MainInit /\ [][MainNext]_vars

(* C17: when the repository root does not exist or cannot be read the run  *)
(* aborts with an error before any filesystem mutation; in every other     *)
(* case, also when quarantine candidates are found, it ends with exit      *)
(* status 0.                                                               *)
C17_BadRootAbortsCleanly ==
  exit_status # {} =>
    IF repo_path \in {"missing", "unreadable"}
    THEN 0 \notin exit_status /\ created = {}
    ELSE exit_status = {0}

(* ------------------- claims about the cycle search --------------------- *)
HasDirectedCycle(graph) ==
  \E n \in DOMAIN graph : n \in ReachableFrom(graph, Get(graph, n))

(* The nodes of the dfs calls in progress. *)
ActiveChain == {frames[i].node : i \in DOMAIN frames}

(* C21: find_circular_dependencies never raises, returns the empty list    *)
(* exactly when the graph has no directed cycle, and between dfs calls     *)
(* rec_stack and path hold exactly the nodes of the active call chain.     *)
C21_CycleSearchIsSound ==
  /\ pc # "raised"
  /\ pc = "returned" => (cycles = <<>> <=> ~HasDirectedCycle(forward_graph))
  /\ pc = "dfs" => rec_stack = ActiveChain /\ Range(dfs_path) = ActiveChain

(* ----------------------- claims about build_graph ---------------------- *)
Mirrored(forward, reverse) ==
  /\ \A a \in DOMAIN forward : \A b \in forward[a] : b \in DOMAIN reverse /\ a \in reverse[b]
  /\ \A b \in DOMAIN reverse : \A a \in reverse[b] : a \in DOMAIN forward /\ b \in forward[a]

C22_WitnessSelfImport ==
  /\ Len(reports) = 1
  /\ Len(all_files) = 1
  /\ all_files[1].parts = <<"util.py">> /\ all_files[1].deps = {"util"}
  /\ all_files[1].readable
  /\ reports[1].dep_graph["util.py"] = {}

(* C23: the size-anomaly check adds empty_file (critical, 0.9) for a file  *)
(* with 0 non-empty lines and tiny_file (minor, 0.3) for a file with 1 to  *)
(* 4 non-empty lines.                                                      *)
C23_SizeAnomalies ==
  (cpc = "tried" /\ facts.readable) =>
    /\ facts.lines = 0 => HasEvidence(prosecution_case, "empty_file", "critical", 90)
    /\ facts.lines \in 1..4 => HasEvidence(prosecution_case, "tiny_file", "minor", 30)

(* ================= Part VII: duplicate detection ====================== *)
(* SemanticAnalyzer._detect_duplicates (semantic_analyzer.py) over the     *)
(* analyzer's file_semantics.  A tf_idf value is an integer number of      *)
(* units (the cosine does not depend on the unit); idf is negative when    *)
(* document_freq[word] exceeds total_docs.  The "similarity" entry of a    *)
(* reported pair, round(similarity, 3), is left out: it is the cosine of   *)
(* the two vectors, which the model recomputes from them.                  *)

(* _classify_file *)
ClassifyFile(name) ==
  LET ext == Suffix(Lower(name))
  IN IF ext \in {".py", ".js", ".ts", ".jsx", ".tsx"} THEN "code"
     ELSE IF ext \in {".md", ".txt", ".rst"} THEN "documentation"
     ELSE IF ext \in {".json", ".yaml", ".yml", ".toml"} THEN "config"
     ELSE IF Contains(Lower(name), "test") \/ Contains(Lower(name), "spec") THEN "test"
     ELSE "other"

RECURSIVE SumOf(_, _)
SumOf(f, S) ==
  IF S = {} THEN 0
  ELSE LET x == CHOOSE y \in S : TRUE IN f[x] + SumOf(f, S \ {x})

SumOfSquares(v) == SumOf([w \in DOMAIN v |-> v[w] * v[w]], DOMAIN v)

(* _cosine_similarity(sem1, sem2) > 0.85, decided without the square       *)
(* roots: dot / (mag1 * mag2) > 17/20 iff dot > 0 and                      *)
(* 400 * dot^2 > 289 * mag1^2 * mag2^2.                                    *)
SimilarityAboveThreshold(sem1, sem2) ==
  LET common_words == DOMAIN sem1.tf_idf \cap DOMAIN sem2.tf_idf
      dot_product == SumOf([w \in common_words |-> sem1.tf_idf[w] * sem2.tf_idf[w]],
                           common_words)
      mag1sq == SumOfSquares(sem1.tf_idf)
      mag2sq == SumOfSquares(sem2.tf_idf)
  IN IF common_words = {} THEN FALSE
     ELSE IF mag1sq = 0 \/ mag2sq = 0 THEN FALSE
     ELSE dot_product > 0 /\ 400 * dot_product * dot_product > 289 * mag1sq * mag2sq

(* The inner for loop of _detect_duplicates from files[j] on, for the      *)
(* outer file files[i]; st is [duplicates, checked].                       *)
RECURSIVE DuplicatesOf(_, _, _, _)
DuplicatesOf(files, i, j, st) ==
  IF j > Len(files) THEN st
  ELSE IF files[j].path \in st.checked THEN DuplicatesOf(files, i, j + 1, st)
  ELSE IF /\ SimilarityAboveThreshold(files[i], files[j])
          /\ files[i].file_type = files[j].file_type
       THEN DuplicatesOf(files, i, j + 1,
              [duplicates |-> Append(st.duplicates,
                                     [file1 |-> files[i].path, file2 |-> files[j].path,
                                      file_type |-> files[i].file_type]),
               checked |-> st.checked \cup {files[j].path}])
  ELSE DuplicatesOf(files, i, j + 1, st)

(* The outer for loop of _detect_duplicates from files[i] on. *)
RECURSIVE DetectLoop(_, _, _)
DetectLoop(files, i, st) ==
  IF i > Len(files) THEN st.duplicates
  ELSE IF files[i].path \in st.checked THEN DetectLoop(files, i + 1, st)
  ELSE DetectLoop(files, i + 1, DuplicatesOf(files, i, i + 1, st))

(* _detect_duplicates *)
DetectDuplicates(files) == DetectLoop(files, 1, [duplicates |-> <<>>, checked |-> {}])

DupWords == {"parser", "lexer"}
DupStems == <<"a", "b", "c", "d">>
DupSuffixes == {".py", ".md"}
TfidfVectors == UNION {[ws -> (-MaxNegTfidf)..MaxTfidf] : ws \in SUBSET DupWords}

(* The analyzer after _calculate_tfidf: files with distinct paths, each    *)
(* with the file_type _analyze_file gave it.                               *)
DuplicatesInit ==
  /\ \E n \in 0..MaxDupFiles :
       \E sfx \in [1..n -> DupSuffixes], tf \in [1..n -> TfidfVectors] :
         file_semantics = [i \in 1..n |->
                             [path |-> DupStems[i] \o sfx[i],
                              file_type |-> ClassifyFile(DupStems[i] \o sfx[i]),
                              tf_idf |-> tf[i]]]
  /\ duplicates = {}
  /\ QInit /\ GIdle /\ CIdle /\ DIdle /\ AIdle /\ MIdle /\ PIdle

DetectDuplicatesCall ==
  /\ duplicates = {}
  /\ duplicates' = {DetectDuplicates(file_semantics)}
  /\ UNCHANGED <<qvars, gvars, cvars, dvars, avars, mvars, pvars, file_semantics>>

DuplicatesNext == DetectDuplicatesCall

SpecDuplicates == DuplicatesInit /\ [][DuplicatesNext]_vars

SemanticsOf(p) == CHOOSE sem \in Range(file_semantics) : sem.path = p

(* C24: in the list _detect_duplicates returns, every file appears in at   *)
(* most one pair (as file1 or file2), and the two files of every pair have *)
(* cosine similarity above 0.85 and the same file_type.                    *)
C24_DuplicatePairs ==
  \A dups \in duplicates :
    /\ \A sem \in Range(file_semantics) :
         Cardinality({k \in DOMAIN dups :
                        dups[k].file1 = sem.path \/ dups[k].file2 = sem.path}) <= 1
    /\ \A k \in DOMAIN dups :
         /\ SimilarityAboveThreshold(SemanticsOf(dups[k].file1), SemanticsOf(dups[k].file2))
         /\ SemanticsOf(dups[k].file1).file_type = SemanticsOf(dups[k].file2).file_type

(* The part of C24 that the guards of the loop give. *)
C24_PairsAreSimilar ==
  \A dups \in duplicates : \A k \in DOMAIN dups :
    /\ SimilarityAboveThreshold(SemanticsOf(dups[k].file1), SemanticsOf(dups[k].file2))
    /\ SemanticsOf(dups[k].file1).file_type = SemanticsOf(dups[k].file2).file_type
    /\ dups[k].file_type = SemanticsOf(dups[k].file1).file_type

(* ================== Part I, continued: cleanup ======================== *)

(* What a cleanup_old_sessions(days) step by instance i must do to one     *)
(* session of the manifest that is older than the cutoff.                  *)
OldSessionIsCleaned(i, cutoff) ==
  \A k \in DOMAIN mem'[i].m.quarantine_sessions :
    LET session == mem'[i].m.quarantine_sessions[k]
        sid == session.session_id
    IN session.timestamp < cutoff =>
         /\ sid \notin qdir'
         /\ \A p \in Paths : qfs'[sid][p] = NoFile
         /\ \A p \in Range(session.files) \cap DOMAIN mem'[i].m.files :
              (mem'[i].m.files[p].session_id = sid
                 /\ mem'[i].m.files[p].timestamp < cutoff)
                => mem'[i].m.files[p].cleaned

(* The step marks no record that was made at or after the cutoff. *)
NewerRecordsNotMarked(i, cutoff) ==
  \A p \in DOMAIN mem[i].m.files :
    (mem[i].m.files[p].timestamp >= cutoff /\ ~mem[i].m.files[p].cleaned)
      => ~mem'[i].m.files[p].cleaned

(* The step removes no copy stored by a record made at or after the cutoff. *)
NewerCopiesKept(i, cutoff) ==
  \A p \in DOMAIN mem[i].m.files :
    LET qp == mem[i].m.files[p].quarantine_path
    IN mem[i].m.files[p].timestamp >= cutoff => qfs'[qp[1]][qp[2]] = qfs[qp[1]][qp[2]]

CleanupStep == last.op = "idle" /\ last'.op = "cleanup_old_sessions"

(* C25: a cleanup_old_sessions(days) call removes the quarantine subtree   *)
(* of every session older than the cutoff and marks the records of its     *)
(* files cleaned, marks no record of a newer session and removes no        *)
(* quarantined copy of a newer session, whatever was done before.          *)
C25_CleanupOnlyOldSessions ==
  [][CleanupStep =>
       /\ OldSessionIsCleaned(last'.inst, now - last'.days)
       /\ NewerRecordsNotMarked(last'.inst, now - last'.days)
       /\ NewerCopiesKept(last'.inst, now - last'.days)]_vars

C25_OldSessionsCleaned ==
  [][CleanupStep => OldSessionIsCleaned(last'.inst, now - last'.days)]_vars

C25_NewerRecordsNotMarked ==
  [][CleanupStep => NewerRecordsNotMarked(last'.inst, now - last'.days)]_vars

C25_NewerCopiesKept ==
  [][CleanupStep => NewerCopiesKept(last'.inst, now - last'.days)]_vars

(* ============ Part VIII: the trials of one court, in steps ============ *)
(* FileCourt.run_trial (court.py) called by NumWorkers threads on one      *)
(* court: a step per agent call, and one where DefenseAgent.defend waits   *)
(* in subprocess.run for git.  trial_duration_ms is left out.  The three   *)
(* git queries of _analyze_git_activity are one query: when it answers     *)
(* or fails, indexes[f].git tells whether it yields evidence; for the      *)
(* files in court.silent the git process never answers.                    *)
Workers == 1..NumWorkers

TrialFilePairs == {<<"legacy_util_old.py", "README.md">>, <<"main.py", "data.py">>}
TrialFindings == {{}, {"commits"}, {"unreadable"}}

NoTrial == [pc |-> "idle", file |-> "", prosecution_case |-> <<>>,
            defense_case |-> <<>>, verdict |-> <<>>]

(* FileCourt(repo_root, conservative): the agents have built their graphs  *)
(* and indexes; the Prosecutor has cached the files it could read then.    *)
TrialsInit ==
  /\ \E files \in TrialFilePairs, conservative \in BOOLEAN,
        found \in [1..2 -> TrialFindings], silent \in BOOLEAN, cached \in BOOLEAN :
       /\ court = [all_files |-> files, conservative |-> conservative,
                   indexes |-> [f \in Range(files) |->
                                  FactsOf(found[CHOOSE k \in 1..2 : files[k] = f])],
                   silent |-> IF silent THEN {files[1]} ELSE {}]
       /\ file_contents = IF cached
                          THEN {f \in Range(files) : court.indexes[f].readable}
                          ELSE {}
  /\ judge_verdicts = <<>>
  /\ trials = <<>>
  /\ workers = [w \in Workers |-> NoTrial]
  /\ QInit /\ GIdle /\ CIdle /\ DIdle /\ AIdle /\ MIdle /\ TIdle

OnTrial == {workers[w].file : w \in {v \in Workers : workers[v].pc \notin {"idle", "returned"}}}
Tried == {trials[k].file_path : k \in DOMAIN trials}

TrialFrame == UNCHANGED <<qvars, gvars, cvars, dvars, avars, mvars, tvars>>

(* _get_content: a file that can be read is in the cache afterwards. *)
GetContent(cache, f, readable) == IF readable THEN cache \cup {f} ELSE cache

RecordTrialReplaces(list, trial) == <<trial>>

(* self.trials.append(trial) *)
RecordTrial(list, trial) == Append(list, trial)

(* run_trial(f) is called on thread w, for a file no trial was run for. *)
TrialStart(w, f) ==
  /\ workers[w].pc \in {"idle", "returned"}
  /\ f \in Range(court.all_files) \ (OnTrial \cup Tried)
  /\ workers' = [workers EXCEPT ![w] = [NoTrial EXCEPT !.pc = "started", !.file = f]]
  /\ UNCHANGED <<court, file_contents, judge_verdicts, trials>>
  /\ TrialFrame

(* self.prosecutor.prosecute(file_path) *)
TrialProsecute(w) ==
  /\ workers[w].pc = "started"
  /\ LET f == workers[w].file
     IN /\ workers' = [workers EXCEPT ![w].pc = "prosecuted",
                                      ![w].prosecution_case = BuildCase(f, court.indexes[f])]
        /\ file_contents' = GetContent(file_contents, f, court.indexes[f].readable)
  /\ UNCHANGED <<court, judge_verdicts, trials>>
  /\ TrialFrame

(* self.defense.defend(file_path) up to subprocess.run in                  *)
(* _analyze_git_activity: the call has no timeout argument.                *)
TrialDefendQuery(w) ==
  /\ workers[w].pc = "prosecuted"
  /\ workers' = [workers EXCEPT ![w].pc = "git"]
  /\ UNCHANGED <<court, file_contents, judge_verdicts, trials>>
  /\ TrialFrame

(* subprocess.run returns or raises; the rest of defend. *)
TrialDefendReturns(w) ==
  /\ workers[w].pc = "git"
  /\ workers[w].file \notin court.silent
  /\ LET f == workers[w].file
     IN workers' = [workers EXCEPT ![w].pc = "defended",
                                   ![w].defense_case = Defend(f, court.indexes[f])]
  /\ UNCHANGED <<court, file_contents, judge_verdicts, trials>>
  /\ TrialFrame

(* self.judge.judge(prosecution_case.to_dict(), defense_case.to_dict()) *)
TrialJudge(w) ==
  /\ workers[w].pc = "defended"
  /\ LET judged == Judge(workers[w].file, ProsecutionToDict(workers[w].prosecution_case),
                         DefenseToDict(workers[w].defense_case), court.conservative)
     IN /\ workers' = [workers EXCEPT ![w].pc = "judged", ![w].verdict = judged]
        /\ judge_verdicts' = Append(judge_verdicts, judged)
  /\ UNCHANGED <<court, file_contents, trials>>
  /\ TrialFrame

(* TrialRecord(...); self.trials.append(trial); return trial *)
TrialReturn(w) ==
  /\ workers[w].pc = "judged"
  /\ trials' = RecordTrial(trials,
                           [file_path |-> workers[w].file,
                            prosecution_case |-> ProsecutionToDict(workers[w].prosecution_case),
                            defense_case |-> DefenseToDict(workers[w].defense_case),
                            verdict |-> workers[w].verdict])
  /\ workers' = [workers EXCEPT ![w].pc = "returned"]
  /\ UNCHANGED <<court, file_contents, judge_verdicts>>
  /\ TrialFrame

WorkerStep(w) ==
  \/ \E f \in Range(court.all_files) : TrialStart(w, f)
  \/ TrialProsecute(w)
  \/ TrialDefendQuery(w)
  \/ TrialDefendReturns(w)
  \/ TrialJudge(w)
  \/ TrialReturn(w)

TrialsNext == \E w \in Workers : WorkerStep(w)

SpecTrials == TrialsInit /\ [][TrialsNext]_vars

(* Every thread keeps running: weak fairness of each step of each thread.  *)
(* For the steps that call an agent, WF_vars(A) is written out as          *)
(* []<>~ENABLED <<A>>_vars \/ []<><<A>>_vars with the guard of A for       *)
(* ENABLED <<A>>_vars (each of these steps changes workers[w].pc).         *)
SpecTrialsFair ==
  /\ SpecTrials
  /\ \A w \in Workers :
       /\ WF_vars(\E f \in Range(court.all_files) : TrialStart(w, f))
       /\ WF_vars(TrialDefendQuery(w))
       /\ []<>(workers[w].pc # "started") \/ []<><<TrialProsecute(w)>>_vars
       /\ []<>(~(workers[w].pc = "git" /\ workers[w].file \notin court.silent))
            \/ []<><<TrialDefendReturns(w)>>_vars
       /\ []<>(workers[w].pc # "defended") \/ []<><<TrialJudge(w)>>_vars
       /\ []<>(workers[w].pc # "judged") \/ []<><<TrialReturn(w)>>_vars

(* C26: every trial that starts returns (a git query that fails or never   *)
(* answers cannot hold defend() and the trial up).                         *)
C26_EveryTrialCompletes ==
  \A w \in Workers : (workers[w].pc = "started") ~> (workers[w].pc = "returned")

(* The half of C26 that holds: a trial whose git query answers or fails    *)
(* returns.                                                                *)
C26_AnsweredTrialCompletes ==
  \A w \in Workers :
    (workers[w].pc = "started" /\ workers[w].file \notin court.silent)
      ~> (workers[w].pc = "returned")

(* What run_trial(f) returns when it runs with no other trial. *)
ExpectedTrial(f) ==
  LET prosecution == ProsecutionToDict(BuildCase(f, court.indexes[f]))
      defense == DefenseToDict(Defend(f, court.indexes[f]))
  IN [file_path |-> f, prosecution_case |-> prosecution, defense_case |-> defense,
      verdict |-> Judge(f, prosecution, defense, court.conservative)]

IsPrefix(a, b) == Len(a) <= Len(b) /\ SubSeq(b, 1, Len(a)) = a

(* The records and verdicts so far are those of trials run one by one,     *)
(* one per file, and every trial that returned is recorded.                *)
SameAsSequential ==
  /\ \A k \in DOMAIN trials : trials[k] = ExpectedTrial(trials[k].file_path)
  /\ \A j, k \in DOMAIN trials : trials[j].file_path = trials[k].file_path => j = k
  /\ \A k \in DOMAIN judge_verdicts :
       judge_verdicts[k] = ExpectedTrial(judge_verdicts[k].file_path).verdict
  /\ \A j, k \in DOMAIN judge_verdicts :
       judge_verdicts[j].file_path = judge_verdicts[k].file_path => j = k
  /\ \A w \in Workers :
       workers[w].pc = "returned" => ExpectedTrial(workers[w].file) \in Range(trials)

OperationStep == last.op = "idle" /\ last'.op # "idle"

(* The number of files stored in the repository and in the quarantine. *)
StoredFiles ==
  Cardinality({p \in Paths : repo[p] # NoFile})
    + Cardinality({sp \in SessionIds \X Paths : qfs[sp[1]][sp[2]] # NoFile})

(* C28: a move into quarantine replaces no copy already stored in the      *)
(* quarantine, a restore replaces no file that exists at the original      *)
(* path, and only permanently_delete and cleanup_old_sessions destroy a    *)
(* file.                                                                   *)
C28_NeverOverwrites ==
  [][OperationStep =>
       /\ last'.op \in {"move_to_quarantine", "cancel"} =>
            \A s \in SessionIds, p \in Paths :
              qfs[s][p] # NoFile => qfs'[s][p] = qfs[s][p]
       /\ last'.op \in {"restore_file", "restore_session"} =>
            \A p \in Paths : repo[p] # NoFile => repo'[p] = repo[p]
       /\ last'.op \notin {"permanently_delete", "cleanup_old_sessions"} =>
            StoredFiles' >= StoredFiles]_vars

C28_MoveKeepsStoredCopies ==
  [][(OperationStep /\ last'.op = "move_to_quarantine") =>
       \A s \in SessionIds, p \in Paths :
         qfs[s][p] # NoFile => qfs'[s][p] = qfs[s][p]]_vars

C28_RestoreKeepsExistingFiles ==
  [][(OperationStep /\ last'.op \in {"restore_file", "restore_session"}) =>
       \A p \in Paths : repo[p] # NoFile => repo'[p] = repo[p]]_vars

(* No two sessions of the manifest of instance i have the same id. *)
SessionIdsUnique(i) ==
  \A j, k \in DOMAIN mem[i].m.quarantine_sessions :
    mem[i].m.quarantine_sessions[j].session_id = mem[i].m.quarantine_sessions[k].session_id
      => j = k

(* restore_session(sid) by instance i has applied restore_file to every    *)
(* file whose record says it was quarantined under sid.                    *)
RestoredEveryFileOf(i, sid) ==
  \A p \in DOMAIN mem[i].m.files :
    mem[i].m.files[p].session_id = sid =>
      \E k \in DOMAIN results :
        "file_path" \in DOMAIN results[k] /\ results[k].file_path = p

(* C29: the session ids of a manifest are pairwise distinct, and           *)
(* restore_session(id) applies restore_file to every file quarantined      *)
(* under that id.                                                          *)
C29_SessionIdsUnique ==
  /\ \A i \in Insts : mem[i].alive => SessionIdsUnique(i)
  /\ last.op = "restore_session" => RestoredEveryFileOf(last.inst, last.sid)

C29_UniqueIds == \A i \in Insts : mem[i].alive => SessionIdsUnique(i)

C29_RestoreSessionCoversId ==
  last.op = "restore_session" => RestoredEveryFileOf(last.inst, last.sid)

(* ------------- Part III, continued: the two modes of the Judge --------- *)
(* KEEP < REVIEW_NEEDED < QUARANTINE *)
Strictness(decision) ==
  CASE decision = "KEEP" -> 0
    [] decision = "REVIEW_NEEDED" -> 1
    [] decision = "QUARANTINE" -> 2

(* The decision of the Judge in each mode on the cases just judged. *)
DecisionIn(conservative) ==
  Judge(prosecution_case.file_path, prosecution_case, defense_case, conservative).decision

(* C30: for the same prosecution case, defense case and file path, the     *)
(* decision in conservative mode is never stricter than the decision in    *)
(* non-conservative mode (KEEP < REVIEW_NEEDED < QUARANTINE).              *)
C30_ConservativeNeverStricter ==
  cpc = "judged" =>
    /\ verdict.decision = DecisionIn(conservative_mode)
    /\ Strictness(DecisionIn(TRUE)) <= Strictness(DecisionIn(FALSE))

(* A judgment in conservative mode that ends in REVIEW_NEEDED where the    *)
(* same cases end in QUARANTINE without the boost.                         *)
C30_Witness ==
  /\ cpc = "judged"
  /\ conservative_mode
  /\ verdict.decision = "REVIEW_NEEDED"
  /\ DecisionIn(FALSE) = "QUARANTINE"

(* One where the boost turns REVIEW_NEEDED into KEEP. *)
C30_WitnessKeep ==
  /\ cpc = "judged"
  /\ conservative_mode
  /\ verdict.decision = "KEEP"
  /\ DecisionIn(FALSE) = "REVIEW_NEEDED"

====
